---------------------------- MODULE Spec2Model ----------------------------
(***************************************************************************)
(* A state-machine model of absfs/memfs: the inode store (src/inode.go),   *)
(* the path helpers (src/pathutils.go), the file handle (src/inode.go,     *)
(* the File type) and the FileSystem facade (src/memfs.go).                *)
(*                                                                         *)
(* A string is a sequence of one-character strings, so that the path       *)
(* functions are computed character by character as Go computes them.      *)
(* A byte slice is a pair (array, len) over a heap of backing arrays, so   *)
(* that two slices sharing an array behave as in Go.  A directory's entry  *)
(* slice is kept with its backing array (buf, of length cap) and its len.  *)
(***************************************************************************)
EXTENDS Integers, Sequences, FiniteSets, TLC

(***************************************************************************)
(* Bounds of the model.                                                    *)
(***************************************************************************)
\* inodes the counter fs.ino may hand out before creating operations stop:
\* in the runs of the inode store alone (MaxLinkIno) and of the facade (MaxIno)
MaxLinkIno == 3
MaxIno == 3
\* file handles a run may hold
MaxFiles == 1
\* the longest file a run writes
MaxLen == 2
\* calls of fn one call of Walk may make
MaxVisited == 4
\* the largest capacity a directory's slice of entries may reach
MaxCap == 8

(***************************************************************************)
(* Strings.                                                                *)
(***************************************************************************)
NIL == 0

\* the printable ASCII characters in the order of their byte values: from the
\* space (32) to the underscore (95), and from "a" (97) to the tilde (126); the
\* grave accent (96) cannot be written in a string of this language
AsciiLow ==
  << " ", "!", "\"", "#", "$", "%", "&", "'", "(", ")", "*", "+",
     ",", "-", ".", "/", "0", "1", "2", "3", "4", "5", "6", "7",
     "8", "9", ":", ";", "<", "=", ">", "?", "@", "A", "B", "C",
     "D", "E", "F", "G", "H", "I", "J", "K", "L", "M", "N", "O",
     "P", "Q", "R", "S", "T", "U", "V", "W", "X", "Y", "Z", "[",
     "\\", "]", "^", "_" >>

AsciiHigh ==
  << "a", "b", "c", "d", "e", "f", "g", "h", "i", "j", "k", "l",
     "m", "n", "o", "p", "q", "r", "s", "t", "u", "v", "w", "x",
     "y", "z", "{", "|", "}", "~" >>

\* the byte value of a character (ASCII), for Go's string comparison; the
\* characters of the paths used below come first
CharOrd(c) ==
  CASE c = "." -> 46
    [] c = "/" -> 47
    [] c = "a" -> 97
    [] c = "b" -> 98
    [] c = "c" -> 99
    [] \E i \in 1..Len(AsciiHigh) : AsciiHigh[i] = c ->
         96 + (CHOOSE i \in 1..Len(AsciiHigh) : AsciiHigh[i] = c)
    [] OTHER -> 31 + (CHOOSE i \in 1..Len(AsciiLow) : AsciiLow[i] = c)

RECURSIVE StrLess(_, _)
\* Go's s < t on strings: bytewise lexicographic order
StrLess(s, t) ==
  IF t = <<>> THEN FALSE
  ELSE IF s = <<>> THEN TRUE
  ELSE IF CharOrd(Head(s)) # CharOrd(Head(t)) THEN CharOrd(Head(s)) < CharOrd(Head(t))
  ELSE StrLess(Tail(s), Tail(t))

\* strings.Index(s, "/"): 0-based index of the first slash, -1 if none
IndexSlash(s) ==
  IF \E i \in 1..Len(s) : s[i] = "/"
  THEN (CHOOSE i \in 1..Len(s) : s[i] = "/" /\ \A j \in 1..(i-1) : s[j] # "/") - 1
  ELSE -1

\* strings.LastIndex(s, "/")
LastIndexSlash(s) ==
  IF \E i \in 1..Len(s) : s[i] = "/"
  THEN (CHOOSE i \in 1..Len(s) : s[i] = "/" /\ \A j \in (i+1)..Len(s) : s[j] # "/") - 1
  ELSE -1

RECURSIVE TrimLeftSlash(_)
\* strings.TrimLeft(s, "/")
TrimLeftSlash(s) ==
  IF s # <<>> /\ Head(s) = "/" THEN TrimLeftSlash(Tail(s)) ELSE s

RECURSIVE TrimRightSlash(_)
TrimRightSlash(s) ==
  IF s # <<>> /\ s[Len(s)] = "/" THEN TrimRightSlash(SubSeq(s, 1, Len(s) - 1)) ELSE s

RECURSIVE StringsSplit(_)
\* strings.Split(s, "/"): every substring between slashes, empty ones included
StringsSplit(s) ==
  LET x == IndexSlash(s) IN
  IF x = -1 THEN <<s>>
  ELSE <<SubSeq(s, 1, x)>> \o StringsSplit(SubSeq(s, x + 2, Len(s)))

RECURSIVE JoinSlash(_)
\* strings.Join(elems, "/")
JoinSlash(elems) ==
  IF elems = <<>> THEN <<>>
  ELSE IF Len(elems) = 1 THEN elems[1]
  ELSE elems[1] \o <<"/">> \o JoinSlash(Tail(elems))

(***************************************************************************)
(* Package path of the Go library, as memfs.go uses it.                    *)
(***************************************************************************)
IsAbs(p) == p # <<>> /\ p[1] = "/"

Dot == <<".">>
DotDot == <<".", ".">>
Slash == <<"/">>

RECURSIVE CleanElems(_, _, _)
\* the elements path.Clean keeps: "" and "." dropped, ".." cancelling the element
\* before it, dropped at the root, and kept in front of a relative path
CleanElems(elems, rooted, out) ==
  IF elems = <<>> THEN out
  ELSE LET e == Head(elems) IN
       IF e = <<>> \/ e = Dot THEN CleanElems(Tail(elems), rooted, out)
       ELSE IF e = DotDot THEN
              IF out # <<>> /\ out[Len(out)] # DotDot
              THEN CleanElems(Tail(elems), rooted, SubSeq(out, 1, Len(out) - 1))
              ELSE IF rooted THEN CleanElems(Tail(elems), rooted, out)
              ELSE CleanElems(Tail(elems), rooted, Append(out, e))
       ELSE CleanElems(Tail(elems), rooted, Append(out, e))

\* path.Clean
Clean(p) ==
  IF p = <<>> THEN Dot
  ELSE LET rooted == IsAbs(p)
           body == JoinSlash(CleanElems(StringsSplit(p), rooted, <<>>))
           r == IF rooted THEN Slash \o body ELSE body
       IN IF r = <<>> THEN Dot ELSE r

\* path.Join(a, b)
Join(a, b) ==
  LET elems == SelectSeq(<<a, b>>, LAMBDA e : e # <<>>) IN
  IF elems = <<>> THEN <<>> ELSE Clean(JoinSlash(elems))

\* path.Split: <<dir, file>>, cut after the last slash
Split(p) ==
  LET i == LastIndexSlash(p) IN <<SubSeq(p, 1, i + 1), SubSeq(p, i + 2, Len(p))>>

\* path.Dir
Dir(p) == Clean(Split(p)[1])

\* path.Base
Base(p) ==
  IF p = <<>> THEN Dot
  ELSE LET q == TrimRightSlash(p)
           i == LastIndexSlash(q)
           r == IF i >= 0 THEN SubSeq(q, i + 2, Len(q)) ELSE q
       IN IF r = <<>> THEN Slash ELSE r

(***************************************************************************)
(* src/pathutils.go                                                        *)
(***************************************************************************)
abs(cwd0, name) == IF IsAbs(name) THEN name ELSE Join(cwd0, name)

\* <<name, trim>>
popPath(path) ==
  IF path = <<>> THEN << <<>>, <<>> >>
  ELSE IF path = Slash THEN << Slash, <<>> >>
  ELSE LET x == IndexSlash(path) IN
       IF x = -1 THEN << path, <<>> >>
       ELSE IF x = 0 THEN << Slash, TrimLeftSlash(path) >>
       ELSE << SubSeq(path, 1, x), SubSeq(path, x + 2, Len(path)) >>

(***************************************************************************)
(* os.FileMode.  Of the 32 bits the model keeps bit 31 (os.ModeDir), bit   *)
(* 27 (os.ModeSymlink) and the nine permission bits; the others are zero   *)
(* in every mode the model passes.                                         *)
(***************************************************************************)
RECURSIVE BitAnd(_, _)
\* a & b on naturals
BitAnd(a, b) ==
  IF a = 0 \/ b = 0 THEN 0
  ELSE (a % 2) * (b % 2) + 2 * BitAnd(a \div 2, b \div 2)

\* os.FileMode(perm) for permission bits only
FileMode(perm) == [dir |-> FALSE, symlink |-> FALSE, perm |-> perm]
ModeSymlink == [dir |-> FALSE, symlink |-> TRUE, perm |-> 0]
ModeDir == [dir |-> TRUE, symlink |-> FALSE, perm |-> 0]

\* a & b
ModeAnd(a, b) ==
  [dir |-> a.dir /\ b.dir, symlink |-> a.symlink /\ b.symlink, perm |-> BitAnd(a.perm, b.perm)]

\* a | b, for b a single type bit or a, b with disjoint permission bits
ModeOrType(a, b) ==
  [dir |-> a.dir \/ b.dir, symlink |-> a.symlink \/ b.symlink, perm |-> a.perm]

\* mode &^ os.ModeType
ClearModeType(m) == [dir |-> FALSE, symlink |-> FALSE, perm |-> m.perm]

(***************************************************************************)
(* The inode store: src/inode.go.  A state S of the program is a record    *)
(*   ino      the counter fs.ino                                           *)
(*   nodes    every inode allocated so far, by ordinal (Ino)               *)
(*   symlinks fs.symlinks                                                  *)
(*   data     fs.data; Go's fs.data[i] is data[i + 1]                      *)
(*   heap     the backing arrays of the byte slices                        *)
(*   cwd, dir fs.cwd and fs.dir                                            *)
(*   umask    fs.Umask                                                     *)
(*   files    the File handles returned so far                             *)
(*   panic    "" or the run-time panic that ended the program              *)
(* Timestamps, Uid and Gid are not modelled.                               *)
(***************************************************************************)
NoPanic == ""
\* the nil *dirent in a directory's backing array
NilEntry == [Name |-> <<>>, Ino |-> NIL]
\* the nil slice of directory entries
NilDir == [buf |-> <<>>, len |-> 0]

\* n.Dir[:len]: the entries of the slice
Entries(d) == SubSeq(d.buf, 1, d.len)

Cap(d) == Len(d.buf)

\* The builds of the program.  The capacity append gives a slice is the run
\* time's choice, and the sources name no Go version: a build is the minor
\* version of Go that opens a family of releases with one rule of growth:
\* 16 for Go 1.16 and 1.17, 18 for Go 1.18 to 1.21, 22 for Go 1.22 and later;
\* and the size in bytes of a pointer on the platform it is built for.
GoBuilds == [go : {16, 18, 22}, ptr : {4, 8}]

\* the size of a page of the allocator, of the largest small object, and of
\* the header Go 1.22 puts in front of an object with pointers
PageSize == 8192
MaxSmallSize == 32768
MallocHeaderSize == 8

\* the size from which Go 1.22 puts the header: a pointer's size times its bits
MinSizeForMallocHeader(build0) == build0.ptr * (8 * build0.ptr)

\* the capacity from which append stops doubling
GrowThreshold(build0) == IF build0.go < 18 THEN 1024 ELSE 256

\* the sizes in bytes of the allocator's small objects (the size classes of
\* the Go run time), in increasing order
SizeClasses ==
  << 8, 16, 24, 32, 48, 64, 80, 96, 112, 128, 144, 160, 176, 192, 208, 224,
     240, 256, 288, 320, 352, 384, 416, 448, 480, 512, 576, 640, 704, 768,
     896, 1024, 1152, 1280, 1408, 1536, 1792, 2048, 2304, 2688, 3072, 3200,
     3456, 4096, 4864, 5376, 6144, 6528, 6784, 6912, 8192, 9472, 9728,
     10240, 10880, 12288, 13568, 14336, 16384, 18432, 19072, 20480, 21760,
     24576, 27264, 28672, 32768 >>

\* the smallest size class that holds size bytes
SizeClass(size) ==
  SizeClasses[CHOOSE k \in 1..Len(SizeClasses) :
                /\ size <= SizeClasses[k]
                /\ \A j \in 1..(k - 1) : SizeClasses[j] < size]

\* size rounded up to whole pages
PageAlign(size) == ((size + PageSize - 1) \div PageSize) * PageSize

\* roundupsize(size) up to Go 1.21: the size of the block the allocator gives a
\* request of size bytes
RoundUpSize(size) ==
  IF size < MaxSmallSize THEN SizeClass(size) ELSE PageAlign(size)

\* roundupsize(size, noscan = false) from Go 1.22 on, for an object that holds
\* pointers: what is left of the block beside the header
RoundUpSizeScan(build0, size) ==
  LET req == IF size > MinSizeForMallocHeader(build0) THEN size + MallocHeaderSize ELSE size
  IN IF size <= MaxSmallSize - MallocHeaderSize THEN SizeClass(req) - (req - size)
     ELSE PageAlign(size)

\* the capacity append gives a full slice of c pointers that grows by one
\* element (the run time's growslice): double below the threshold; beyond it
\* a quarter more, and from Go 1.18 on 3/4 of the threshold as well; rounded
\* up to the block the allocator returns
GrowCap(build0, c) ==
  LET newcap == IF c = 0 THEN 1
                ELSE IF c < GrowThreshold(build0) THEN 2 * c
                ELSE IF build0.go < 18 THEN c + c \div 4
                ELSE c + (c + 3 * GrowThreshold(build0)) \div 4
      mem == newcap * build0.ptr
  IN (IF build0.go < 22 THEN RoundUpSize(mem) ELSE RoundUpSizeScan(build0, mem)) \div build0.ptr

\* two builds grow every slice of at most MaxCap elements alike
SameGrowth(b1, b2) == \A c \in 0..MaxCap : GrowCap(b1, c) = GrowCap(b2, c)

\* the builds a run may be of: of the builds that no directory within the
\* bound tells apart, one
Builds == {b \in GoBuilds : b = CHOOSE b2 \in GoBuilds : SameGrowth(b, b2)}

IsDir(S, n) == S.nodes[n].Mode.dir

Panicked(S) == S.panic # NoPanic

\* returns <<S', inode>>; the fields the literal leaves out, Size among them, are
\* zero
newFile(S, mode) ==
  LET n == S.ino + 1 IN
  << [S EXCEPT !.ino = n,
               !.nodes = S.nodes @@ (n :> [Mode |-> ClearModeType(mode), Nlink |-> 0, Size |-> 0, Dir |-> NilDir])],
     n >>

countUp(S, n) == [S EXCEPT !.nodes[n].Nlink = @ + 1]

countDown(S, n) ==
  IF S.nodes[n].Nlink = 0 THEN [S EXCEPT !.panic = "negative link count"]
  ELSE [S EXCEPT !.nodes[n].Nlink = @ - 1]

RECURSIVE Search(_, _, _, _)
\* sort.Search's loop on [i, j): the binary search for the first entry e with
\* e.Name >= name
Search(es, name, i, j) ==
  IF i < j
  THEN LET h == (i + j) \div 2 IN
       IF StrLess(es[h + 1].Name, name) THEN Search(es, name, h + 1, j)
       ELSE Search(es, name, i, h)
  ELSE i

\* find that searches for the first entry above name, not at or above it
findAbove(S, n, name) ==
  LET es == Entries(S.nodes[n].Dir) IN
  Cardinality({k \in 1..Len(es) : ~StrLess(name, es[k].Name)})

\* the 0-based index n.find returns
find(S, n, name) ==
  LET es == Entries(S.nodes[n].Dir) IN Search(es, name, 0, Len(es))

\* whether n.Dir[x] exists and carries name
Found(S, n, x, name) ==
  x < S.nodes[n].Dir.len /\ S.nodes[n].Dir.buf[x + 1].Name = name

unlinki(S, n, i) ==
  LET d == S.nodes[n].Dir
      S1 == countDown(S, d.buf[i + 1].Ino)
      buf2 == SubSeq(d.buf, 1, i) \o SubSeq(d.buf, i + 2, d.len)
              \o SubSeq(d.buf, d.len, Len(d.buf))
  IN IF Panicked(S1) THEN S1
     ELSE [S1 EXCEPT !.nodes[n].Dir = [buf |-> buf2, len |-> d.len - 1]]

\* linkswapi that moves the link counts and leaves the old entry in its place
linkswapiKeepsEntry(S, n, i, entry) ==
  LET S1 == countDown(S, S.nodes[n].Dir.buf[i + 1].Ino)
  IN IF Panicked(S1) THEN S1 ELSE countUp(S1, entry.Ino)

\* linkswapi that forgets the displaced inode's countDown
linkswapiNoCountDown(S, n, i, entry) ==
  countUp([S EXCEPT !.nodes[n].Dir.buf[i + 1] = entry], entry.Ino)

linkswapi(S, n, i, entry) ==
  LET d == S.nodes[n].Dir
      S1 == countDown(S, d.buf[i + 1].Ino)
      S2 == [S1 EXCEPT !.nodes[n].Dir.buf[i + 1] = entry]
  IN IF Panicked(S1) THEN S1 ELSE countUp(S2, entry.Ino)

\* append(n.Dir, nil): in place when the capacity allows, else into a new,
\* larger array whose tail is zero
AppendNil(build0, d) ==
  IF d.len < Cap(d)
  THEN [buf |-> [d.buf EXCEPT ![d.len + 1] = NilEntry], len |-> d.len + 1]
  ELSE [buf |-> Entries(d) \o [k \in 1..(GrowCap(build0, Cap(d)) - d.len) |-> NilEntry],
        len |-> d.len + 1]

linki(S, n, i, entry) ==
  LET d == AppendNil(S.build, S.nodes[n].Dir)
      buf2 == SubSeq(d.buf, 1, i) \o <<entry>> \o SubSeq(d.buf, i + 1, d.len - 1)
              \o SubSeq(d.buf, d.len + 1, Len(d.buf))
  IN countUp([S EXCEPT !.nodes[n].Dir = [buf |-> buf2, len |-> d.len]], entry.Ino)

\* returns [S, err]
Link(S, n, name, child) ==
  LET at(x, entry) ==
        IF Found(S, n, x, name)
        THEN [S |-> linkswapi(S, n, x, entry), err |-> ""]
        ELSE [S |-> linki(S, n, x, entry), err |-> ""]
  IN IF ~IsDir(S, n) THEN [S |-> S, err |-> "not a directory"]
     ELSE at(find(S, n, name), [Name |-> name, Ino |-> child])

\* returns [S, err]
Unlink(S, n, name) ==
  LET at(x) == IF ~Found(S, n, x, name) THEN [S |-> S, err |-> "ENOENT"]
               ELSE [S |-> unlinki(S, n, x), err |-> ""]
  IN IF ~IsDir(S, n) THEN [S |-> S, err |-> "not a directory"]
     ELSE at(find(S, n, name))

\* returns <<S', inode>>
newDir(S, mode) ==
  LET dotdot(S2, d) == << Link(S2, d, DotDot, d).S, d >>
      dot(S1, d) == dotdot(Link(S1, d, Dot, d).S, d)
      made(r) == dot([r[1] EXCEPT !.nodes[r[2]].Mode = ModeOrType(ClearModeType(mode), ModeDir)],
                     r[2])
  IN made(newFile(S, mode))

\* one call of n.UnlinkAll() that has not returned: the entries of n.Dir its
\* loop has still to visit, and the inodes as they were when it was called
UnlinkAllFrame(S, n) == [n |-> n, es |-> Entries(S.nodes[n].Dir), at |-> S.nodes]

\* the calls of UnlinkAll are kept as a stack of frames, the innermost last;
\* the run is over when the outermost call has returned or the program has
\* panicked
UnlinkAllDone(c) == Panicked(c.S) \/ c.stack = <<>>

\* the loop of the innermost call moves to its next entry
UnlinkAllContinue(stack) == [stack EXCEPT ![Len(stack)].es = Tail(@)]

\* one step of n.UnlinkAll(): the loop body for the next entry of the innermost
\* call, or, after its last entry, n.Dir = n.Dir[:0] and the return to the
\* caller, which counts the entry's inode down.  The code has no guard against
\* cycles: a call on an inode that is in a call already, with the inodes as
\* they were when that call began, repeats it without end, and the program
\* ends in a stack overflow
UnlinkAllStep(c) ==
  IF UnlinkAllDone(c) THEN c
  ELSE LET f == c.stack[Len(c.stack)] IN
       IF f.es = <<>>
       THEN LET callers == SubSeq(c.stack, 1, Len(c.stack) - 1)
                S1 == [c.S EXCEPT !.nodes[f.n].Dir.len = 0]
            IN IF callers = <<>> THEN [S |-> S1, stack |-> callers]
               ELSE [S |-> countDown(S1, f.n), stack |-> UnlinkAllContinue(callers)]
       ELSE LET e == Head(f.es) IN
            IF e.Name = DotDot THEN [c EXCEPT !.stack = UnlinkAllContinue(@)]
            ELSE IF e.Ino = f.n
                 THEN [S |-> countDown(c.S, e.Ino), stack |-> UnlinkAllContinue(c.stack)]
            ELSE IF \E k \in 1..Len(c.stack) :
                      c.stack[k].n = e.Ino /\ c.stack[k].at = c.S.nodes
                 THEN [c EXCEPT !.S.panic = "stack overflow"]
                 ELSE [c EXCEPT !.stack = Append(@, UnlinkAllFrame(c.S, e.Ino))]

RECURSIVE UnlinkAllRun(_, _)
\* 2^k steps of UnlinkAll, or as many as it takes
UnlinkAllRun(c, k) ==
  IF k = 0 THEN UnlinkAllStep(c)
  ELSE LET next(c1) == IF UnlinkAllDone(c1) THEN c1 ELSE UnlinkAllRun(c1, k - 1)
       IN next(UnlinkAllRun(c, k - 1))

RECURSIVE UnlinkAllUntil(_, _)
\* the steps of UnlinkAll until the outermost call has returned or the program
\* has panicked
UnlinkAllUntil(c, k) ==
  IF UnlinkAllDone(c) THEN c ELSE UnlinkAllUntil(UnlinkAllRun(c, k), k + 1)

UnlinkAll(S, n) == UnlinkAllUntil([S |-> S, stack |-> <<UnlinkAllFrame(S, n)>>], 0).S

RECURSIVE resolve(_, _, _)
\* returns [node, err]; node is NIL with an error
resolve(S, n, path) ==
  LET rest(r) == IF r.err # "" THEN [node |-> NIL, err |-> r.err]
                 ELSE IF r.node = NIL THEN [node |-> n, err |-> ""]
                 ELSE r
      at(x, name, trim) ==
        IF Found(S, n, x, name)
        THEN IF trim = <<>> THEN [node |-> S.nodes[n].Dir.buf[x + 1].Ino, err |-> ""]
             ELSE resolve(S, S.nodes[n].Dir.buf[x + 1].Ino, trim)
        ELSE [node |-> NIL, err |-> "ENOENT"]
      popped(name, trim) ==
        IF name = Slash
        THEN IF trim = <<>> THEN [node |-> n, err |-> ""]
             ELSE rest(resolve(S, n, trim))
        ELSE at(find(S, n, name), name, trim)
      pop(pp) == popped(pp[1], pp[2])
  IN pop(popPath(path))

(***************************************************************************)
(* Byte slices over the heap of backing arrays.                            *)
(***************************************************************************)
\* the nil slice, and the empty slice []byte{}
NilSlice == [arr |-> NIL, len |-> 0]

\* the bytes of a slice
Bytes(S, sl) == IF sl.arr = NIL THEN <<>> ELSE SubSeq(S.heap[sl.arr], 1, sl.len)

\* make([]byte, size) holding bs in front, zero behind: returns <<S', slice>>
MakeBytes(S, size, bs) ==
  IF size = 0 THEN << S, NilSlice >>
  ELSE LET a == CHOOSE k \in 1..(Cardinality(DOMAIN S.heap) + 1) : k \notin DOMAIN S.heap
           arr == [k \in 1..size |-> IF k <= Len(bs) THEN bs[k] ELSE 0]
       IN << [S EXCEPT !.heap = S.heap @@ (a :> arr)], [arr |-> a, len |-> size] >>

\* the array of every slice of the state, in the order fs.data, then the handles
SliceRefs(S) ==
  [i \in 1..Len(S.data) |-> S.data[i].arr] \o [h \in 1..Len(S.files) |-> S.files[h].data.arr]

\* the garbage collector: an array no slice refers to is gone.  Addresses are
\* not observable, so the arrays left are numbered in the order of SliceRefs.
Collect(S) ==
  LET refs == SliceRefs(S)
      live == {refs[i] : i \in 1..Len(refs)} \ {NIL}
      first(a) == CHOOSE i \in 1..Len(refs) : refs[i] = a /\ \A j \in 1..(i - 1) : refs[j] # a
      rank(a) == Cardinality({b \in live : first(b) < first(a)}) + 1
      old(k) == CHOOSE a \in live : rank(a) = k
      ren(sl) == IF sl.arr = NIL THEN sl ELSE [sl EXCEPT !.arr = rank(sl.arr)]
  IN IF live = {} THEN [S EXCEPT !.heap = <<>>]
     ELSE [S EXCEPT !.heap = [k \in 1..Cardinality(live) |-> S.heap[old(k)]],
                    !.data = [i \in 1..Len(S.data) |-> ren(S.data[i])],
                    !.files = [h \in 1..Len(S.files) |-> [S.files[h] EXCEPT !.data = ren(@)]]]

(***************************************************************************)
(* Open flags (package os on Linux) and absfs's masks.                     *)
(***************************************************************************)
O_RDONLY == 0
O_WRONLY == 1
O_RDWR == 2
O_ACCESS == 3
O_CREATE == 64
O_EXCL == 128
O_TRUNC == 512
\* the flag word File.Read answers with end-of-stream
MagicFlags == 3712

\* flag & bit # 0, for a single bit
HasFlag(flag, bit) == (flag \div bit) % 2 = 1
\* the access mode taken from the lowest bit alone
AccessLowBit(flag) == flag % 2

\* flag & absfs.O_ACCESS
Access(flag) == flag % (O_ACCESS + 1)

\* the permission bits written as three octal digits
Oct(u, g, o) == 64 * u + 8 * g + o
OS_ALL_R == Oct(4, 4, 4)
OS_ALL_W == Oct(2, 2, 2)
OS_ALL_RW == Oct(6, 6, 6)

(***************************************************************************)
(* The file handle: type File, src/inode.go lines 240-407.                 *)
(* Every operation returns a record with the new state S and err; a        *)
(* run-time panic is S.panic.                                              *)
(***************************************************************************)
Crash(S, what) == [S EXCEPT !.panic = what]

\* fs.data[i] is an index expression: out of range panics
InRange(S, i) == i >= 0 /\ i < Len(S.data)

NewHandle(S, name, flag, node, sl) ==
  Append(S.files, [name |-> name, flags |-> flag, node |-> node, data |-> sl,
                   offset |-> 0, diroffset |-> 0])

\* File.Read with a buffer of buflen bytes: returns [S, err, out]
Read(S, h, buflen) ==
  LET f == S.files[h] IN
  IF f.flags = MagicFlags THEN [S |-> S, err |-> "EOF", out |-> <<>>]
  ELSE IF f.node = NIL THEN [S |-> Crash(S, "nil pointer dereference"), err |-> "panic", out |-> <<>>]
  ELSE IF IsDir(S, f.node) THEN [S |-> S, err |-> "EISDIR", out |-> <<>>]
  ELSE IF f.offset >= f.data.len THEN [S |-> S, err |-> "EOF", out |-> <<>>]
  ELSE IF Access(f.flags) = O_WRONLY THEN [S |-> S, err |-> "EBADF", out |-> <<>>]
  ELSE IF f.offset < 0
  THEN [S |-> Crash(S, "slice bounds out of range"), err |-> "panic", out |-> <<>>]
  ELSE LET rest == SubSeq(Bytes(S, f.data), f.offset + 1, f.data.len)
           n == IF buflen < Len(rest) THEN buflen ELSE Len(rest)
       IN [S |-> [S EXCEPT !.files[h].offset = @ + n], err |-> "", out |-> SubSeq(rest, 1, n)]

\* File.ReadAt(b, off) with a buffer of buflen bytes: returns [S, err, out]
ReadAt(S, h, buflen, off) ==
  IF Access(S.files[h].flags) = O_WRONLY THEN [S |-> S, err |-> "EPERM", out |-> <<>>]
  ELSE Read([S EXCEPT !.files[h].offset = off], h, buflen)

\* File.Write(p): returns [S, err, n]
Write(S, h, p) ==
  LET f == S.files[h] IN
  IF Access(f.flags) = O_RDONLY THEN [S |-> S, err |-> "EBADF", n |-> 0]
  ELSE IF f.offset < 0
  THEN [S |-> Crash(S, "slice bounds out of range"), err |-> "panic", n |-> 0]
  ELSE LET size == Len(p) + f.offset
           grown == IF size > f.data.len THEN MakeBytes(S, size, Bytes(S, f.data))
                    ELSE << S, f.data >>
           S1 == grown[1]
           sl == grown[2]
           S2 == IF p = <<>> THEN S1
                 ELSE [S1 EXCEPT !.heap[sl.arr] =
                         [k \in 1..Len(@) |->
                            IF k > f.offset /\ k <= f.offset + Len(p) THEN p[k - f.offset] ELSE @[k]]]
       IN [S |-> [S2 EXCEPT !.files[h].offset = @ + Len(p), !.files[h].data = sl],
           err |-> "", n |-> Len(p)]

\* File.WriteAt(b, off): returns [S, err, n]
WriteAt(S, h, p, off) == Write([S EXCEPT !.files[h].offset = off], h, p)

\* File.Sync: returns [S, err]
Sync(S, h) ==
  LET f == S.files[h] IN
  IF Access(f.flags) = O_RDONLY THEN [S |-> S, err |-> ""]
  ELSE IF f.node = NIL THEN [S |-> Crash(S, "nil pointer dereference"), err |-> "panic"]
  ELSE IF ~InRange(S, f.node) THEN [S |-> Crash(S, "index out of range"), err |-> "panic"]
  ELSE [S |-> [S EXCEPT !.data[f.node + 1] = f.data], err |-> ""]

\* File.Close: returns [S, err]
Close(S, h) ==
  LET synced(r) == IF r.err # "" THEN r
                   ELSE [S |-> [r.S EXCEPT !.files[h].node = NIL], err |-> ""]
  IN synced(Sync(S, h))

\* the whence values of package io
SeekStart == 0
SeekCurrent == 1
SeekEnd == 2

\* Seek that leaves a negative resulting offset as it is
SeekNoClamp(S, h, offset, whence) ==
  LET f == S.files[h]
      moved == CASE whence = SeekStart -> offset
                 [] whence = SeekCurrent -> f.offset + offset
                 [] whence = SeekEnd -> f.data.len + offset
                 [] OTHER -> f.offset
  IN [S |-> [S EXCEPT !.files[h].offset = moved], err |-> "", ret |-> moved]

\* File.Seek: returns [S, err, ret]
Seek(S, h, offset, whence) ==
  LET f == S.files[h]
      moved == CASE whence = SeekStart -> offset
                 [] whence = SeekCurrent -> f.offset + offset
                 [] whence = SeekEnd -> f.data.len + offset
                 [] OTHER -> f.offset
      clamped(o) == IF o < 0 THEN 0 ELSE o
  IN [S |-> [S EXCEPT !.files[h].offset = clamped(moved)], err |-> "", ret |-> clamped(moved)]

\* File.Truncate: returns [S, err]
Truncate(S, h, size) ==
  LET f == S.files[h]
      grown(g) == [S |-> [g[1] EXCEPT !.files[h].data = g[2]], err |-> ""]
  IN IF Access(f.flags) = O_RDONLY THEN [S |-> S, err |-> "EPERM"]
     ELSE IF size <= f.data.len
     THEN IF size < 0 THEN [S |-> Crash(S, "slice bounds out of range"), err |-> "panic"]
          ELSE [S |-> [S EXCEPT !.files[h].data.len = size], err |-> ""]
     ELSE grown(MakeBytes(S, size, Bytes(S, f.data)))

\* the slice expression dirs[lo:hi] of a directory's entries, which Go allows up
\* to the capacity; an entry past len is nil or stale
SliceOK(d, lo, hi) == 0 <= lo /\ lo <= hi /\ hi <= Cap(d)

\* File.Readdir and File.Readdirnames share their control flow; the names are
\* what Readdirnames returns and what Readdir's infos carry.
\* returns [S, err, out]
Readdirnames(S, h, n0) ==
  LET f == S.files[h] IN
  IF Access(f.flags) = O_WRONLY THEN [S |-> S, err |-> "EPERM", out |-> <<>>]
  ELSE IF f.node = NIL THEN [S |-> Crash(S, "nil pointer dereference"), err |-> "panic", out |-> <<>>]
  ELSE IF ~IsDir(S, f.node) THEN [S |-> S, err |-> "not a directory", out |-> <<>>]
  ELSE LET dirs == S.nodes[f.node].Dir IN
       IF f.diroffset >= dirs.len THEN [S |-> S, err |-> "EOF", out |-> <<>>]
       ELSE LET n == IF n0 < 1 THEN dirs.len ELSE n0 IN
            IF n - f.diroffset < 0
            THEN [S |-> Crash(S, "makeslice: len out of range"), err |-> "panic", out |-> <<>>]
            ELSE IF ~SliceOK(dirs, f.diroffset, n)
            THEN [S |-> Crash(S, "slice bounds out of range"), err |-> "panic", out |-> <<>>]
            ELSE LET es == SubSeq(dirs.buf, f.diroffset + 1, n) IN
                 IF \E k \in 1..Len(es) : es[k].Ino = NIL
                 THEN [S |-> Crash(S, "nil pointer dereference"), err |-> "panic", out |-> <<>>]
                 ELSE [S |-> [S EXCEPT !.files[h].diroffset = @ + n], err |-> "",
                       out |-> [k \in 1..Len(es) |-> es[k].Name]]

Readdir(S, h, n0) == Readdirnames(S, h, n0)

(***************************************************************************)
(* The facade: type FileSystem, src/memfs.go.                              *)
(***************************************************************************)
Root == 1

\* NewFS, in a program of the build build0
NewFS(build0) ==
  LET S0 == [build |-> build0, ino |-> 0, nodes |-> <<>>, symlinks |-> <<>>, data |-> <<NilSlice, NilSlice>>,
             heap |-> <<>>, cwd |-> Slash, dir |-> Root, umask |-> FileMode(Oct(7, 5, 5)),
             files |-> <<>>, panic |-> NoPanic]
  IN newDir(S0, S0.umask)[1]

\* the directory a path is resolved from: fs.root, or fs.dir for a relative path
Wd(S, name) == IF IsAbs(name) THEN Root ELSE S.dir

\* fs.root.Resolve(strings.TrimLeft(dir, "/")) unless dir is "/": the parent
\* directory as Mkdir, Remove and RemoveAll find it
ParentOf(S, dirp) ==
  IF dirp # Slash THEN resolve(S, Root, TrimLeftSlash(dirp)) ELSE [node |-> Root, err |-> ""]

\* returns [S, err, h]: h is the handle's index in S.files, NIL with an error
OpenFile(S, name, flag, perm) ==
  LET access == Access(flag)
      create == HasFlag(flag, O_CREATE)
      truncate == HasFlag(flag, O_TRUNC)
      bad(S1, e) == [S |-> S1, err |-> e, h |-> NIL]
      opened(S1, node) ==
        IF ~InRange(S1, node) THEN bad(Crash(S1, "index out of range"), "panic")
        ELSE [S |-> [S1 EXCEPT !.files = NewHandle(S1, name, flag, node, S1.data[node + 1])],
              err |-> "", h |-> Len(S1.files) + 1]
      denied(perm1) ==
        \/ access = O_RDONLY /\ BitAnd(perm1, OS_ALL_R) = 0
        \/ access = O_WRONLY /\ BitAnd(perm1, OS_ALL_W) = 0
        \/ access = O_RDWR /\ BitAnd(perm1, OS_ALL_RW) = 0
      finish(S1, node) ==
        IF ~InRange(S1, node) THEN bad(Crash(S1, "index out of range"), "panic")
        ELSE IF ~create /\ denied(S1.nodes[node].Mode.perm) THEN bad(S1, "EPERM")
        ELSE opened(S1, node)
      linked(lk, node) ==
        IF lk.err # "" THEN bad(lk.S, lk.err)
        ELSE IF Panicked(lk.S) THEN bad(lk.S, "panic")
        ELSE finish([lk.S EXCEPT !.data = Append(@, NilSlice)], node)
      made(nf, parent, filename) == linked(Link(nf[1], parent, filename, nf[2]), nf[2])
      at(r, pr, filename) ==
        IF pr.err # "" THEN bad(S, pr.err)
        ELSE IF r.err # "" /\ ~create THEN bad(S, "ENOENT")
        ELSE IF r.err = ""
        THEN IF create /\ HasFlag(flag, O_EXCL) THEN bad(S, "EEXIST")
             ELSE IF IsDir(S, r.node) /\ (access # O_RDONLY \/ truncate) THEN bad(S, "EISDIR")
             ELSE IF truncate /\ ~InRange(S, r.node)
             THEN bad(Crash(S, "index out of range"), "panic")
             ELSE finish(IF truncate THEN [S EXCEPT !.data[r.node + 1].len = 0] ELSE S, r.node)
        ELSE made(newFile(S, ModeAnd(S.umask, FileMode(perm))), pr.node, filename)
      split(wd, sp) == at(resolve(S, wd, name), resolve(S, wd, Clean(sp[1])), sp[2])
  IN IF name = Slash THEN opened(S, Root)
     ELSE IF name = Dot THEN opened(S, S.dir)
     ELSE split(Wd(S, name), Split(name))

\* fs.Open
Open(S, name) == OpenFile(S, name, O_RDONLY, 0)

\* fs.Create
Create(S, name) == OpenFile(S, name, O_CREATE + O_RDWR + O_TRUNC, Oct(6, 4, 4))

\* returns [S, err]
Mkdir(S, name, perm) ==
  LET done(S2) == IF Panicked(S2) THEN [S |-> S2, err |-> "panic"]
                  ELSE [S |-> [S2 EXCEPT !.data = Append(@, NilSlice)], err |-> ""]
      linked(S1, child, parent) ==
        done(IF Panicked(S1) THEN S1 ELSE Link(S1, child, DotDot, parent).S)
      made(nd, parent, filename) ==
        linked(Link(nd[1], parent, filename, nd[2]).S, nd[2], parent)
      at(r, pr, filename) ==
        IF r.err = "" THEN [S |-> S, err |-> "EEXIST"]
        ELSE IF pr.err # "" THEN [S |-> S, err |-> pr.err]
        ELSE made(newDir(S, ModeAnd(S.umask, FileMode(perm))), pr.node, filename)
      split(sp) == at(resolve(S, Wd(S, name), name), ParentOf(S, Clean(sp[1])), sp[2])
  IN split(Split(IF IsAbs(name) THEN name ELSE Join(S.cwd, name)))

RECURSIVE MkdirAllLoop(_, _, _, _)
\* the loop of MkdirAll over the elements ps that are left
MkdirAllLoop(S, ps, path, perm) ==
  LET step(path1) == MkdirAllLoop(Mkdir(S, path1, perm).S, Tail(ps), path1, perm) IN
  IF ps = <<>> \/ Panicked(S) THEN S
  ELSE step(Join(path, IF Head(ps) = <<>> THEN Slash ELSE Head(ps)))

\* returns [S, err]
MkdirAll(S, name, perm) ==
  LET done(S1) == [S |-> S1, err |-> IF Panicked(S1) THEN "panic" ELSE ""] IN
  done(MkdirAllLoop(S, StringsSplit(abs(S.cwd, name)), <<>>, perm))

\* returns [S, err]
Remove(S, name) ==
  LET done(u) == IF Panicked(u.S) THEN [S |-> u.S, err |-> "panic"] ELSE u
      at(r, pr, filename) ==
        IF r.err # "" THEN [S |-> S, err |-> r.err]
        ELSE IF IsDir(S, r.node) /\ S.nodes[r.node].Dir.len > 0
        THEN [S |-> S, err |-> "directory not empty"]
        ELSE IF pr.err # "" THEN [S |-> S, err |-> pr.err]
        ELSE done(Unlink(S, pr.node, filename))
      split(sp) == at(resolve(S, Wd(S, name), name), ParentOf(S, Clean(sp[1])), sp[2])
  IN split(Split(IF IsAbs(name) THEN name ELSE Join(S.cwd, name)))

\* returns [S, err]
RemoveAll(S, name) ==
  LET done(u) == IF Panicked(u.S) THEN [S |-> u.S, err |-> "panic"] ELSE u
      emptied(S1, parent, filename) ==
        IF Panicked(S1) THEN [S |-> S1, err |-> "panic"]
        ELSE done(Unlink(S1, parent, filename))
      at(r, pr, filename) ==
        IF r.err # "" THEN [S |-> S, err |-> r.err]
        ELSE IF pr.err # "" THEN [S |-> S, err |-> pr.err]
        ELSE emptied(UnlinkAll(S, r.node), pr.node, filename)
      split(sp) == at(resolve(S, Wd(S, name), name), ParentOf(S, Clean(sp[1])), sp[2])
  IN split(Split(IF IsAbs(name) THEN name ELSE Join(S.cwd, name)))

\* returns [S, err]
Chdir(S, name) ==
  LET at(r, cwd1) ==
        IF r.err # "" THEN [S |-> S, err |-> r.err]
        ELSE IF ~IsDir(S, r.node) THEN [S |-> S, err |-> "not a directory"]
        ELSE [S |-> [S EXCEPT !.cwd = cwd1, !.dir = r.node], err |-> ""]
  IN IF name = Slash THEN [S |-> [S EXCEPT !.cwd = Slash, !.dir = Root], err |-> ""]
     ELSE at(resolve(S, Wd(S, name), name), IF IsAbs(name) THEN name ELSE Join(S.cwd, name))

\* the capacity of a byte slice
ByteCap(S, sl) == IF sl.arr = NIL THEN 0 ELSE Len(S.heap[sl.arr])

\* FileSystem.Truncate(name, size): returns [S, err].  The path is resolved
\* with its leading slash, and size is compared with the inode's Size
FileSystemTruncate(S, name, size) ==
  LET grown(g, i) == [S |-> [g[1] EXCEPT !.data[i + 1] = g[2]], err |-> ""]
      at(r) ==
        IF r.err # "" THEN [S |-> S, err |-> r.err]
        ELSE IF ~InRange(S, r.node) THEN [S |-> Crash(S, "index out of range"), err |-> "panic"]
        ELSE IF size <= S.nodes[r.node].Size
        THEN IF size < 0 \/ size > ByteCap(S, S.data[r.node + 1])
             THEN [S |-> Crash(S, "slice bounds out of range"), err |-> "panic"]
             ELSE [S |-> [S EXCEPT !.data[r.node + 1].len = size], err |-> ""]
        ELSE grown(MakeBytes(S, size, Bytes(S, S.data[r.node + 1])), r.node)
  IN at(resolve(S, Root, abs(S.cwd, name)))

\* returns [S, err]; mode is a whole os.FileMode
Chmod(S, name, mode) ==
  LET at(r) == IF r.err # "" THEN [S |-> S, err |-> r.err]
               ELSE [S |-> [S EXCEPT !.nodes[r.node].Mode = mode], err |-> ""]
      named(name1) == at(IF name1 # Slash THEN resolve(S, Root, TrimLeftSlash(name1))
                         ELSE [node |-> Root, err |-> ""])
  IN named(abs(S.cwd, name))

\* fs.symlinks[ino]: the empty string for a missing key
SymlinkTarget(S, i) == IF i \in DOMAIN S.symlinks THEN S.symlinks[i] ELSE <<>>

SetSymlink(S, i, target) ==
  [S EXCEPT !.symlinks = [k \in (DOMAIN S.symlinks) \cup {i} |->
                            IF k = i THEN target ELSE S.symlinks[k]]]

\* returns [S, err]
Symlink(S, oldname, newname) ==
  LET linked(lk, node) ==
        IF lk.err # "" THEN [S |-> lk.S, err |-> lk.err]
        ELSE IF Panicked(lk.S) THEN [S |-> lk.S, err |-> "panic"]
        ELSE [S |-> SetSymlink(lk.S, node, oldname), err |-> ""]
      made(nf, parent, filename) == linked(Link(nf[1], parent, filename, nf[2]), nf[2])
      at(rn, ro, pr, filename) ==
        IF rn.err = "" /\ ~S.nodes[rn.node].Mode.symlink THEN [S |-> S, err |-> "EEXIST"]
        ELSE IF ro.err # "" THEN [S |-> S, err |-> "ENOENT"]
        ELSE IF rn.err = ""
        THEN [S |-> SetSymlink([S EXCEPT !.nodes[rn.node].Mode =
                                   ModeOrType(S.nodes[ro.node].Mode, ModeSymlink)],
                               rn.node, oldname),
              err |-> ""]
        ELSE IF pr.err # "" THEN [S |-> S, err |-> pr.err]
        ELSE made(newFile(S, ModeOrType(S.nodes[ro.node].Mode, ModeSymlink)), pr.node, filename)
      split(wd, sp) ==
        at(resolve(S, wd, newname), resolve(S, wd, oldname), resolve(S, wd, Clean(sp[1])), sp[2])
  IN split(Wd(S, newname), Split(newname))

\* returns [S, out, err]: the recorded target of the inode name resolves to,
\* without a look at its mode
Readlink(S, name) ==
  LET at(r) == IF r.err # "" THEN [S |-> S, out |-> <<>>, err |-> r.err]
               ELSE [S |-> S, out |-> SymlinkTarget(S, r.node), err |-> ""]
  IN IF name = Slash THEN [S |-> S, out |-> SymlinkTarget(S, Root), err |-> ""]
     ELSE at(resolve(S, Root, TrimLeftSlash(name)))

\* the elements of the cleaned path p
PathElems(p) == CleanElems(StringsSplit(p), IsAbs(p), <<>>)

\* the inode the first k elements of an absolute path lead to from the root,
\* NIL when they lead nowhere
PrefixNode(S, elems, k) ==
  LET at(r) == IF r.err # "" THEN NIL ELSE r.node IN
  IF k = 0 THEN Root ELSE at(resolve(S, Root, JoinSlash(SubSeq(elems, 1, k))))

\* one more than the length of the longest target in fs.symlinks: no target
\* climbs more directories than this
MaxClimb(S) ==
  LET lens == {0} \cup {Len(S.symlinks[i]) : i \in DOMAIN S.symlinks}
  IN 1 + CHOOSE n \in lens : \A m \in lens : m <= n

\* the call fileStat(cwd0, name0) as the recursion sees it: the inodes of the
\* last directories of cwd0 (all of them when there are at most MaxClimb), the
\* depth h of cwd0, and low, the depth below which this call and the calls
\* after it do not look (rel: none of them had an absolute name)
StatCall(S, cwd0, name0) ==
  LET elems == PathElems(cwd0)
      h == Len(elems)
      d == IF h < MaxClimb(S) THEN h ELSE MaxClimb(S)
      ce == PathElems(name0)
      ups == Cardinality({i \in 1..Len(ce) : ce[i] = DotDot})
  IN [cwd |-> cwd0, name |-> name0, h |-> h,
      top |-> [k \in 1..(d + 1) |-> PrefixNode(S, elems, h - d + k - 1)],
      low |-> h - ups - (IF Len(ce) = ups THEN 1 ELSE 0),
      rel |-> ~IsAbs(name0)]

\* the recursion of fileStat has no end when the call c repeats an earlier call
\* e of the chain: the same strings; or the same name under the same
\* directories, either all of them, or the last ones when no call since e
\* looked below them
Recurs(S, c, e) ==
  \/ e.cwd = c.cwd /\ e.name = c.name
  \/ /\ e.name = c.name
     /\ e.top = c.top
     /\ \/ c.h = e.h /\ c.h <= MaxClimb(S)
        \/ c.h >= e.h /\ e.rel /\ e.low >= e.h - MaxClimb(S)

RECURSIVE fileStat(_, _, _, _)
\* returns [node, err]; seen holds the calls of the chain so far.  The code has
\* no guard against cycles: a chain of links that never ends overflows the
\* stack, err "stack overflow"
fileStat(S, cwd0, name0, seen) ==
  LET c == StatCall(S, cwd0, name0)
      since(e) == [e EXCEPT !.low = IF c.low < e.low THEN c.low ELSE e.low,
                            !.rel = e.rel /\ c.rel]
      at(name, r) ==
        IF r.err # "" THEN [node |-> NIL, err |-> r.err]
        ELSE IF ~S.nodes[r.node].Mode.symlink THEN [node |-> r.node, err |-> ""]
        ELSE fileStat(S, Dir(name), SymlinkTarget(S, r.node),
                      {since(e) : e \in seen} \cup {c})
      named(name) == at(name, resolve(S, Root, TrimLeftSlash(name)))
  IN IF \E e \in seen : Recurs(S, c, e) THEN [node |-> NIL, err |-> "stack overflow"]
     ELSE named(abs(cwd0, name0))

\* a fileinfo on an inode: what its methods Size, Mode and IsDir return
fileinfo(S, node) ==
  [Size |-> S.nodes[node].Size, Mode |-> S.nodes[node].Mode, IsDir |-> IsDir(S, node)]

\* returns [S, node, err]
Stat(S, name) ==
  LET at(r) == IF r.err = "stack overflow"
               THEN [S |-> Crash(S, "stack overflow"), node |-> NIL, err |-> "panic"]
               ELSE [S |-> S, node |-> r.node, err |-> r.err]
  IN IF name = Slash THEN [S |-> S, node |-> Root, err |-> ""]
     ELSE at(fileStat(S, S.cwd, name, {}))

\* returns [S, node, err]
Lstat(S, name) ==
  LET at(r) == [S |-> S, node |-> r.node, err |-> r.err] IN
  IF name = Slash THEN [S |-> S, node |-> Root, err |-> ""]
  ELSE at(resolve(S, Root, TrimLeftSlash(abs(S.cwd, name))))

\* sort.Sort(sort.Reverse(sort.StringSlice(names)))
SortReverse(names) == SortSeq(names, LAMBDA s, u : StrLess(u, s))

RECURSIVE PushChildren(_, _, _)
\* the loop of Walk over the sorted names: every name but "." and ".." is
\* pushed, joined to path
PushChildren(stack, path, names) ==
  IF names = <<>> THEN stack
  ELSE IF Head(names) = DotDot \/ Head(names) = Dot THEN PushChildren(stack, path, Tail(names))
  ELSE PushChildren(Append(stack, Join(path, Head(names))), path, Tail(names))

\* the error a visitor returns to stop the walk
FnError == "fn error"

\* one pass of Walk's loop over a stack that is not empty, up to the call of
\* fn: the path on top is taken off, stat'ed and, if a directory, opened and
\* listed, and its children are pushed.  returns [S, err, stack, path]: with
\* an error Walk returns it and fn is not called, without one fn is called
\* with path
WalkStep(S, stack) ==
  LET ret(S1, e, path) == [S |-> S1, err |-> e, stack |-> stack, path |-> path]
      called(S1, stack1, path) == [S |-> S1, err |-> "", stack |-> stack1, path |-> path]
      dropped(S1) == [S1 EXCEPT !.files = SubSeq(@, 1, Len(@) - 1)]
      closed(cl, rd, rest, path) ==
        IF Panicked(cl.S) THEN ret(cl.S, "panic", path)
        ELSE IF rd.err # "" THEN ret(dropped(cl.S), rd.err, path)
        ELSE called(dropped(cl.S), PushChildren(rest, path, SortReverse(rd.out)), path)
      listed(rd, h, rest, path) ==
        IF Panicked(rd.S) THEN ret(rd.S, "panic", path)
        ELSE closed(Close(rd.S, h), rd, rest, path)
      opened(o, rest, path) ==
        IF o.err # "" THEN ret(o.S, o.err, path)
        ELSE listed(Readdirnames(o.S, o.h, -1), o.h, rest, path)
      stated(st, rest, path) ==
        IF st.err # "" THEN ret(st.S, st.err, path)
        ELSE IF IsDir(S, st.node) THEN opened(Open(S, path), rest, path)
        ELSE called(S, rest, path)
      popped(path, rest) == stated(Stat(S, path), rest, path)
  IN popped(stack[Len(stack)], SubSeq(stack, 1, Len(stack) - 1))

(***************************************************************************)
(* The state machine.                                                      *)
\* fs.root.Rename, whose code is not part of the sources: the inode reference
\* moves from the old parent under the old basename to the new parent under
\* the new basename, with Link's policy where the new name exists.
\* returns [S, err]
inodeRename(S, oldpath, newpath) ==
  LET linked(lk, parent) ==
        IF lk.err # "" THEN lk
        ELSE IF Panicked(lk.S) THEN [S |-> lk.S, err |-> "panic"]
        ELSE IF oldpath = newpath THEN lk
        ELSE Unlink(lk.S, parent, Base(oldpath))
      at(ro, po, pn) ==
        IF ro.err # "" THEN [S |-> S, err |-> ro.err]
        ELSE IF po.err # "" THEN [S |-> S, err |-> po.err]
        ELSE IF pn.err # "" THEN [S |-> S, err |-> pn.err]
        ELSE linked(Link(S, pn.node, Base(newpath), ro.node), po.node)
  IN at(resolve(S, Root, oldpath), resolve(S, Root, Dir(oldpath)), resolve(S, Root, Dir(newpath)))

\* returns [S, err]
Rename(S, oldpath, newpath) ==
  IF oldpath = Slash
  THEN [S |-> S, err |-> "the root folder may not be moved or renamed"]
  ELSE inodeRename(S, IF IsAbs(oldpath) THEN oldpath ELSE Join(S.cwd, oldpath),
                      IF IsAbs(newpath) THEN newpath ELSE Join(S.cwd, newpath))

\* Create, Write and Close in a row, as the tests write a file; the handle is
\* dropped once it is closed.  returns [S, err]
WriteFile(S, name, p) ==
  LET closed(cl) ==
        IF Panicked(cl.S) THEN cl
        ELSE [S |-> [cl.S EXCEPT !.files = SubSeq(@, 1, Len(@) - 1)], err |-> cl.err]
      written(w, h) == closed(Close(w.S, h))
      created(c) == IF c.err # "" THEN [S |-> c.S, err |-> c.err]
                    ELSE written(Write(c.S, c.h, p), c.h)
  IN created(Create(S, name))

(***************************************************************************)
VARIABLES
  build,     \* the build of the program
  ino,       \* fs.ino
  nodes,     \* the inodes, by Ino
  symlinks,  \* fs.symlinks
  data,      \* fs.data
  heap,      \* the backing arrays of fs.data's and the handles' slices
  cwd,       \* fs.cwd
  dir,       \* fs.dir
  umask,     \* fs.Umask
  files,     \* the File handles
  panic,     \* the panic that ended the program, or ""
  walk,      \* the call of Walk under way, or the one that returned last
  last       \* the last call and what it returned

vars == <<build, ino, nodes, symlinks, data, heap, cwd, dir, umask, files, panic, walk, last>>

\* the program's state as the operators take it
St ==
  [build |-> build, ino |-> ino, nodes |-> nodes, symlinks |-> symlinks, data |-> data, heap |-> heap,
   cwd |-> cwd, dir |-> dir, umask |-> umask, files |-> files, panic |-> panic]

\* no call of Walk.  Of a call of Walk: active while it has not returned, the
\* name it was given, its stack, the paths fn has been called with, quiet
\* while fn has made no call of its own, and fnerr once fn has returned an
\* error
NoWalk ==
  [active |-> FALSE, name |-> <<>>, stack |-> <<>>, visited |-> <<>>,
   quiet |-> TRUE, fnerr |-> FALSE]

\* the file system's state a call leaves behind
Moves(S0) ==
  \E S \in {Collect(S0)} :
  /\ \A n \in 1..S.ino : Cap(S.nodes[n].Dir) <= MaxCap
  /\ build' = S.build
  /\ ino' = S.ino
  /\ nodes' = S.nodes
  /\ symlinks' = S.symlinks
  /\ data' = S.data
  /\ heap' = S.heap
  /\ cwd' = S.cwd
  /\ dir' = S.dir
  /\ umask' = S.umask
  /\ files' = S.files
  /\ panic' = S.panic

\* the state a call other than Walk leaves behind: made while Walk is in a
\* call of fn, it is a call fn makes
Becomes(S0) ==
  /\ Moves(S0)
  /\ walk' = IF walk.active THEN [walk EXCEPT !.quiet = FALSE] ELSE NoWalk

\* what last records: the call (op, on handle h) and what it returned (err, out)
Call(op, path, arg, h, err, out, node) ==
  [op |-> op, h |-> h, err |-> err, out |-> out]

Running == panic = NoPanic

Init ==
  \E b \in Builds : \E S \in {NewFS(b)} :
  /\ build = S.build
  /\ ino = S.ino
  /\ nodes = S.nodes
  /\ symlinks = S.symlinks
  /\ data = S.data
  /\ heap = S.heap
  /\ cwd = S.cwd
  /\ dir = S.dir
  /\ umask = S.umask
  /\ files = S.files
  /\ panic = S.panic
  /\ walk = NoWalk
  /\ last = Call("NewFS", <<>>, 0, NIL, "", <<>>, NIL)

(***************************************************************************)
(* One action per operation.  An action takes the sets its arguments are   *)
(* drawn from; each specification below fixes them.                        *)
(***************************************************************************)
\* iNo.newFile, as the inode tests call it
DoNewFile(perms, max) ==
  \E perm \in perms :
    /\ Running /\ ino < max
    /\ \E r \in {newFile(St, FileMode(perm))} :
       /\ Becomes(r[1])
       /\ last' = Call("newFile", <<>>, perm, NIL, "", <<>>, r[2])

\* inode.Link on any directory and child
DoLink(names) ==
  \E n \in 1..ino, child \in 1..ino, name \in names :
    /\ Running
    /\ \E r \in {Link(St, n, name, child)} :
       /\ Becomes(r.S)
       /\ last' = Call("Link", name, n, NIL, r.err, <<>>, child)

\* inode.Unlink
DoUnlink(names) ==
  \E n \in 1..ino, name \in names :
    /\ Running
    /\ \E r \in {Unlink(St, n, name)} :
       /\ Becomes(r.S)
       /\ last' = Call("Unlink", name, n, NIL, r.err, <<>>, NIL)

\* inode.UnlinkAll, called on an inode directly
DoUnlinkAll(inos) ==
  \E n \in inos :
    /\ Running /\ n <= ino
    /\ \E S1 \in {UnlinkAll(St, n)} :
       /\ Becomes(S1)
       /\ last' = Call("UnlinkAll", <<>>, n, NIL, IF Panicked(S1) THEN "panic" ELSE "", <<>>, NIL)

DoMkdir(paths, perms, max) ==
  \E name \in paths, perm \in perms :
    /\ Running /\ ino < max
    /\ \E r \in {Mkdir(St, name, perm)} :
       /\ Becomes(r.S)
       /\ last' = Call("Mkdir", name, perm, NIL, r.err, <<>>, NIL)

DoMkdirAll(paths, perms) ==
  \E name \in paths, perm \in perms :
    /\ Running
    /\ \E r \in {MkdirAll(St, name, perm)} :
       /\ r.S.ino <= MaxIno
       /\ Becomes(r.S)
       /\ last' = Call("MkdirAll", name, perm, NIL, r.err, <<>>, NIL)

DoOpenFile(paths, flags, perms) ==
  \E name \in paths, flag \in flags, perm \in perms :
    /\ Running
    /\ \E r \in {OpenFile(St, name, flag, perm)} :
       /\ r.S.ino <= MaxIno
       /\ Len(r.S.files) <= MaxFiles
       /\ Becomes(r.S)
       /\ last' = Call("OpenFile", name, flag, r.h, r.err, <<>>, NIL)

DoWrite(inputs) ==
  \E h \in 1..Len(files), p \in inputs :
    /\ Running
    /\ \E r \in {Write(St, h, p)} :
       /\ r.S.files[h].offset <= MaxLen
       /\ Becomes(r.S)
       /\ last' = Call("Write", <<>>, r.n, h, r.err, p, NIL)

DoRead(buflens) ==
  \E h \in 1..Len(files), buflen \in buflens :
    /\ Running
    /\ \E r \in {Read(St, h, buflen)} :
       /\ Becomes(r.S)
       /\ last' = Call("Read", <<>>, buflen, h, r.err, r.out, NIL)

DoWriteAt(inputs, offs) ==
  \E h \in 1..Len(files), p \in inputs, off \in offs :
    /\ Running
    /\ \E r \in {WriteAt(St, h, p, off)} :
       /\ r.S.files[h].offset <= MaxLen
       /\ Becomes(r.S)
       /\ last' = Call("WriteAt", <<>>, off, h, r.err, p, NIL)

DoReadAt(buflens, offs) ==
  \E h \in 1..Len(files), buflen \in buflens, off \in offs :
    /\ Running
    /\ \E r \in {ReadAt(St, h, buflen, off)} :
       /\ Becomes(r.S)
       /\ last' = Call("ReadAt", <<>>, off, h, r.err, r.out, NIL)

DoFileSystemTruncate(paths, sizes) ==
  \E name \in paths, size \in sizes :
    /\ Running
    /\ \E r \in {FileSystemTruncate(St, name, size)} :
       /\ Becomes(r.S)
       /\ last' = Call("FileSystem.Truncate", name, size, NIL, r.err, <<>>, NIL)

DoSync ==
  \E h \in 1..Len(files) :
    /\ Running
    /\ \E r \in {Sync(St, h)} :
       /\ Becomes(r.S)
       /\ last' = Call("Sync", <<>>, 0, h, r.err, <<>>, NIL)

DoClose ==
  \E h \in 1..Len(files) :
    /\ Running
    /\ \E r \in {Close(St, h)} :
       /\ Becomes(r.S)
       /\ last' = Call("Close", <<>>, 0, h, r.err, <<>>, NIL)

DoReaddir(ns) ==
  \E h \in 1..Len(files), n \in ns :
    /\ Running
    /\ \E r \in {Readdir(St, h, n)} :
       /\ Becomes(r.S)
       /\ last' = Call("Readdir", <<>>, n, h, r.err, r.out, NIL)

DoReaddirnames(ns) ==
  \E h \in 1..Len(files), n \in ns :
    /\ Running
    /\ \E r \in {Readdirnames(St, h, n)} :
       /\ Becomes(r.S)
       /\ last' = Call("Readdirnames", <<>>, n, h, r.err, r.out, NIL)

DoRemove(paths) ==
  \E name \in paths :
    /\ Running
    /\ \E r \in {Remove(St, name)} :
       /\ Becomes(r.S)
       /\ last' = Call("Remove", name, 0, NIL, r.err, <<>>, NIL)

DoRemoveAll(paths) ==
  \E name \in paths :
    /\ Running
    /\ \E r \in {RemoveAll(St, name)} :
       /\ Becomes(r.S)
       /\ last' = Call("RemoveAll", name, 0, NIL, r.err, <<>>, NIL)

DoChdir(paths) ==
  \E name \in paths :
    /\ Running
    /\ \E r \in {Chdir(St, name)} :
       /\ Becomes(r.S)
       /\ last' = Call("Chdir", name, 0, NIL, r.err, <<>>, NIL)

DoChmod(paths, modes) ==
  \E name \in paths, mode \in modes :
    /\ Running
    /\ \E r \in {Chmod(St, name, mode)} :
       /\ Becomes(r.S)
       /\ last' = Call("Chmod", name, mode.perm, NIL, r.err, <<>>, NIL)

DoSymlink(targets, paths) ==
  \E oldname \in targets, newname \in paths :
    /\ Running
    /\ \E r \in {Symlink(St, oldname, newname)} :
       /\ r.S.ino <= MaxIno
       /\ Becomes(r.S)
       /\ last' = Call("Symlink", newname, 0, NIL, r.err, oldname, NIL)

DoStat(paths) ==
  \E name \in paths :
    /\ Running
    /\ \E r \in {Stat(St, name)} :
       /\ Becomes(r.S)
       /\ last' = Call("Stat", name, 0, NIL, r.err, <<>>, r.node)

DoLstat(paths) ==
  \E name \in paths :
    /\ Running
    /\ \E r \in {Lstat(St, name)} :
       /\ Becomes(r.S)
       /\ last' = Call("Lstat", name, 0, NIL, r.err, <<>>, r.node)

DoReadlink(paths) ==
  \E name \in paths :
    /\ Running
    /\ \E r \in {Readlink(St, name)} :
       /\ Becomes(r.S)
       /\ last' = Call("Readlink", name, 0, NIL, r.err, r.out, NIL)

\* Walk returns err, after the pass r of its loop or a call of fn
WalkReturns(w, err) ==
  /\ walk' = [w EXCEPT !.active = FALSE, !.stack = <<>>]
  /\ last' = Call("Walk", w.name, 0, NIL, err, w.visited, NIL)

\* the pass r of the loop has ended: in an error of Walk's own, or in the call
\* of fn with r.path
WalkPassed(w, r) ==
  /\ Moves(r.S)
  /\ IF r.err # "" THEN WalkReturns(w, r.err)
     ELSE /\ Len(w.visited) < MaxVisited
          /\ walk' = [w EXCEPT !.stack = r.stack, !.visited = Append(@, r.path)]
          /\ last' = Call("fn", r.path, 0, NIL, "", <<>>, NIL)

\* fs.Walk(name, fn) is called, and runs up to its first call of fn
DoWalk(paths) ==
  \E name \in paths :
    /\ Running /\ ~walk.active
    /\ \E r \in {WalkStep(St, <<name>>)} :
       WalkPassed([NoWalk EXCEPT !.active = TRUE, !.name = name], r)

\* fn returns nil, and Walk runs on: to its return when the stack is empty, or
\* through the next pass of its loop
DoFnReturnsNil ==
  /\ Running /\ walk.active
  /\ IF walk.stack = <<>>
     THEN /\ Moves(St)
          /\ WalkReturns(walk, "")
     ELSE \E r \in {WalkStep(St, walk.stack)} : WalkPassed(walk, r)

\* fn returns an error, and Walk returns it
DoFnReturnsError ==
  /\ Running /\ walk.active
  /\ Moves(St)
  /\ WalkReturns([walk EXCEPT !.fnerr = TRUE], FnError)

DoRename(paths) ==
  \E oldpath \in paths, newpath \in paths :
    /\ Running
    /\ \E r \in {Rename(St, oldpath, newpath)} :
       /\ Becomes(r.S)
       /\ last' = Call("Rename", oldpath, 0, NIL, r.err, newpath, NIL)

DoSeek(offsets, whences) ==
  \E h \in 1..Len(files), offset \in offsets, whence \in whences :
    /\ Running
    /\ \E r \in {Seek(St, h, offset, whence)} :
       /\ r.ret <= MaxLen
       /\ Becomes(r.S)
       /\ last' = Call("Seek", <<>>, offset, h, r.err, <<r.ret>>, NIL)

DoTruncate(sizes) ==
  \E h \in 1..Len(files), size \in sizes :
    /\ Running
    /\ \E r \in {Truncate(St, h, size)} :
       /\ Becomes(r.S)
       /\ last' = Call("Truncate", <<>>, size, h, r.err, <<>>, NIL)

DoWriteFile(paths, inputs) ==
  \E name \in paths, p \in inputs :
    /\ Running
    /\ \E r \in {WriteFile(St, name, p)} :
       /\ r.S.ino <= MaxIno
       /\ Becomes(r.S)
       /\ last' = Call("WriteFile", name, 0, NIL, r.err, p, NIL)

(***************************************************************************)
(* The inode store under Mkdir, Link and Unlink (with newFile to have      *)
(* inodes to link).                                                        *)
(***************************************************************************)
NameA == <<"a">>
NameB == <<"b">>
PathA == <<"/", "a">>
PathB == <<"/", "b">>
PathAB == <<"/", "a", "/", "b">>

LinkNames == {NameA}
LinkPaths == {PathA, PathAB}
DirPerm == {Oct(7, 7, 7)}

NextLink ==
  \/ DoNewFile({Oct(6, 6, 6)}, MaxLinkIno)
  \/ DoMkdir(LinkPaths, DirPerm, MaxLinkIno)
  \/ DoLink(LinkNames)
  \/ DoUnlink(LinkNames)

SpecLink == Init /\ [][NextLink]_vars

(***************************************************************************)
(* What the claims speak of.                                               *)
(***************************************************************************)
\* the inodes a directory's entries refer to
Children(S, n) == {S.nodes[n].Dir.buf[k].Ino : k \in 1..S.nodes[n].Dir.len}

RECURSIVE ReachFrom(_, _)
ReachFrom(S, set) ==
  LET more == set \cup UNION {Children(S, n) : n \in set} IN
  IF more = set THEN set ELSE ReachFrom(S, more)

\* the inodes reachable from the root through directory entries
Reachable(S) == ReachFrom(S, {Root})

\* the directory entries, in any directory, that refer to inode i
RefCount(S, i) ==
  Cardinality(UNION {{<<n, k>> : k \in {x \in 1..S.nodes[n].Dir.len :
                                                S.nodes[n].Dir.buf[x].Ino = i}} :
                     n \in 1..S.ino})

\* the names of a directory's entries, in order
NamesOf(S, n) == [k \in 1..S.nodes[n].Dir.len |-> S.nodes[n].Dir.buf[k].Name]

\* strictly ascending in Go's string order
Ascending(names) == \A k \in 1..(Len(names) - 1) : StrLess(names[k], names[k + 1])

(***************************************************************************)
(* C2.  Link-count conservation: after any sequence of Mkdir, Link and     *)
(* Unlink, every inode reachable from the root has a link count equal to   *)
(* the number of directory entries, in any directory and with "." and ".." *)
(* counted, that refer to it.                                              *)
(***************************************************************************)
C2_LinkCountConservation ==
  \A i \in Reachable(St) : nodes[i].Nlink = RefCount(St, i)

\* a successful Unlink has just acted, a directory made by Mkdir still counts
\* on the root through its "..", and a file is linked
C2_Witness ==
  /\ last.op = "Unlink" /\ last.err = ""
  /\ nodes[Root].Nlink >= 3
  /\ \E i \in Reachable(St) : ~nodes[i].Mode.dir /\ nodes[i].Nlink >= 1

(***************************************************************************)
(* The facade's directory operations.                                      *)
(***************************************************************************)
FacadePaths == {Slash, PathA, PathAB, NameB}
FacadeInputs == {<<1>>}

NextFacade ==
  \/ DoMkdir(FacadePaths, DirPerm, MaxIno)
  \/ DoMkdirAll({PathAB}, DirPerm)
  \/ DoWriteFile({PathA, NameB}, FacadeInputs)
  \/ DoRemove(FacadePaths)
  \/ DoRemoveAll(FacadePaths)
  \/ DoChdir({Slash, PathA})

SpecFacade == Init /\ [][NextFacade]_vars

(***************************************************************************)
(* C3.  Root invariance: Rename with oldpath "/" and Remove("/") return an *)
(* error, and after any sequence of facade operations, RemoveAll("/")      *)
(* among them, the root inode still has ordinal 1 and still holds a ".."   *)
(* entry that resolves to the root itself.                                 *)
(***************************************************************************)
C3_RootInvariance ==
  Running =>
    /\ \A newpath \in FacadePaths : Rename(St, Slash, newpath).err # ""
    /\ Remove(St, Slash).err # ""
    /\ Root = 1 /\ Root \in 1..ino
    /\ \E k \in 1..nodes[Root].Dir.len :
         nodes[Root].Dir.buf[k] = [Name |-> DotDot, Ino |-> Root]
    /\ resolve(St, Root, DotDot) = [node |-> Root, err |-> ""]

(***************************************************************************)
(* C7.  In every reachable state the entries of every directory have       *)
(* pairwise distinct names in strictly ascending order, a Link onto an     *)
(* existing name having replaced the entry; and Readdirnames(-1) on two    *)
(* fresh opens of the same unchanged directory returns the same ascending  *)
(* list.                                                                   *)
(***************************************************************************)
C7_SortedDistinctEntries ==
  /\ \A n \in 1..ino :
       /\ Ascending(NamesOf(St, n))
       /\ \A j, k \in 1..nodes[n].Dir.len :
            nodes[n].Dir.buf[j].Name = nodes[n].Dir.buf[k].Name => j = k
  /\ Running =>
       \A name \in FacadePaths :
         LET o1 == Open(St, name)
             r1 == Readdirnames(o1.S, o1.h, -1)
             o2 == Open(r1.S, name)
             r2 == Readdirnames(o2.S, o2.h, -1)
         IN (o1.err = "" /\ IsDir(St, o1.S.files[o1.h].node)) =>
              /\ o2.err = "" /\ o2.S.files[o2.h].node = o1.S.files[o1.h].node
              /\ r1.err = r2.err /\ r1.out = r2.out
              /\ r1.out = NamesOf(St, o1.S.files[o1.h].node)
              /\ Ascending(r1.out)

\* the root lists ".", "..", "a" and "b", where "a" was linked after "b" and so
\* went in before it, and a Mkdir's link of ".." replaced the new directory's
\* own
C7_Witness ==
  /\ NamesOf(St, Root) = <<Dot, DotDot, NameA, NameB>>
  /\ nodes[Root].Dir.buf[3].Ino > nodes[Root].Dir.buf[4].Ino
  /\ last.op = "Mkdir" /\ last.err = ""
  /\ Open(St, PathA).err = ""

(***************************************************************************)
(* C8.  MkdirAll idempotence: for any path P, MkdirAll(P) twice in a row   *)
(* succeeds both times, and the second call creates no inode and changes   *)
(* no directory entry: P resolves to the same single directory inode after *)
(* the first call and after the second.                                    *)
(***************************************************************************)
C8_MkdirAllIdempotent ==
  Running =>
    \A P \in FacadePaths, perm \in DirPerm :
      LET m1 == MkdirAll(St, P, perm)
          m2 == MkdirAll(m1.S, P, perm)
          p1 == resolve(m1.S, Root, abs(St.cwd, P))
          p2 == resolve(m2.S, Root, abs(St.cwd, P))
      IN /\ m1.err = "" /\ m2.err = ""
         /\ m2.S.ino = m1.S.ino
         /\ \A n \in 1..m1.S.ino :
              Entries(m2.S.nodes[n].Dir) = Entries(m1.S.nodes[n].Dir)
         /\ p1.err = "" /\ p2 = p1 /\ IsDir(m1.S, p1.node)

(***************************************************************************)
(* Files: OpenFile with its flags, and Write, Read and Close on the        *)
(* handles.                                                                *)
(***************************************************************************)
IOPaths == {PathA, PathAB}
IOFlags == {O_RDONLY, O_RDWR, O_CREATE + O_RDWR + O_TRUNC}
IOPerms == {Oct(6, 4, 4), Oct(4, 4, 4)}
IOInputs == {<<1>>}

NextIO ==
  \/ DoMkdir({PathA}, DirPerm, MaxIno)
  \/ DoOpenFile(IOPaths, IOFlags, IOPerms)
  \/ DoWrite(IOInputs)
  \/ DoRead({MaxLen})
  \/ DoClose

SpecIO == Init /\ [][NextIO]_vars

\* the paths and flags OpenFile is asked about in every state
AskPaths == {PathA, PathAB, PathB}
AccessModes == {O_RDONLY, O_WRONLY, O_RDWR}

\* the parent directory of name, as OpenFile resolves it, exists
ParentExists(S, name) ==
  LET pr == resolve(S, Wd(S, name), Clean(Split(name)[1])) IN
  pr.err = "" /\ IsDir(S, pr.node)

\* the mode bits allow the access mode a
Allowed(perm, a) ==
  CASE a = O_RDONLY -> BitAnd(perm, OS_ALL_R) # 0
    [] a = O_WRONLY -> BitAnd(perm, OS_ALL_W) # 0
    [] OTHER -> BitAnd(perm, OS_ALL_R) # 0 /\ BitAnd(perm, OS_ALL_W) # 0

RECURSIVE ReadAll(_, _, _, _)
\* Read with a buffer of buflen bytes until a Read returns an error, at most
\* fuel + 1 times: [S, out, err]
ReadAll(S, h, buflen, fuel) ==
  LET r == Read(S, h, buflen) IN
  IF r.err # "" THEN [S |-> r.S, out |-> <<>>, err |-> r.err]
  ELSE IF fuel = 0 THEN [S |-> r.S, out |-> r.out, err |-> ""]
  ELSE LET rest == ReadAll(r.S, h, buflen, fuel - 1) IN
       [S |-> rest.S, out |-> r.out \o rest.out, err |-> rest.err]

(***************************************************************************)
(* C1.  Round trip: for any byte sequence B and any path P whose parent    *)
(* directory exists, in any reachable state, Create(P), Write(B), Close,   *)
(* then Open(P) and reading to end-of-stream returns exactly B, and the    *)
(* next Read returns end-of-stream.  P is taken absent, or a regular file  *)
(* whose mode lets it be read.                                             *)
(***************************************************************************)
C1_RoundTrip ==
  Running =>
    \A P \in AskPaths, B \in {<<>>, <<1>>, <<2, 3>>} :
      LET t == resolve(St, Root, P)
          c == Create(St, P)
          w == Write(c.S, c.h, B)
          cl == Close(w.S, c.h)
          o == Open(cl.S, P)
          ra == ReadAll(o.S, o.h, 1, Len(B))
          nx == Read(ra.S, o.h, 1)
      IN (/\ ParentExists(St, P)
          /\ t.err = "" => ~IsDir(St, t.node) /\ Allowed(nodes[t.node].Mode.perm, O_RDONLY))
         => /\ c.err = "" /\ w.err = "" /\ w.n = Len(B) /\ cl.err = ""
            /\ o.err = ""
            /\ ra.out = B /\ ra.err = "EOF"
            /\ nx.err = "EOF" /\ nx.out = <<>>

(***************************************************************************)
(* C9.  For a path other than "/" and "." whose parent directory exists,   *)
(* OpenFile's error follows this table, read from the top: target absent   *)
(* and O_CREATE unset gives ENOENT; target present and O_CREATE|O_EXCL set *)
(* gives EEXIST; target a directory and (access mode not read-only or      *)
(* O_TRUNC set) gives EISDIR; and in each of these cases no inode is       *)
(* created and no file content is changed.                                 *)
(***************************************************************************)
\* the table's error for a target (present or not, a directory or not) and
\* the parts of the flag, "" where no row applies
OpenTable(present, isdir, a, create, excl, trunc) ==
  IF ~present /\ ~create THEN "ENOENT"
  ELSE IF present /\ create /\ excl THEN "EEXIST"
  ELSE IF present /\ isdir /\ (a # O_RDONLY \/ trunc) THEN "EISDIR"
  ELSE ""

\* OpenFile(name, flag) of every flag follows the table and changes nothing
FollowsTable(name) ==
  LET t == resolve(St, Wd(St, name), name)
      present == t.err = ""
      isdir == present /\ IsDir(St, t.node)
  IN \A a \in AccessModes, create \in BOOLEAN, excl \in BOOLEAN, trunc \in BOOLEAN :
       LET flag == a + (IF create THEN O_CREATE ELSE 0) + (IF excl THEN O_EXCL ELSE 0)
                     + (IF trunc THEN O_TRUNC ELSE 0)
           want == OpenTable(present, isdir, a, create, excl, trunc)
           o == OpenFile(St, name, flag, Oct(6, 4, 4))
       IN want # "" => o.err = want /\ o.h = NIL /\ o.S = St

C9_OpenFileErrorTable ==
  Running => \A name \in AskPaths : ParentExists(St, name) => FollowsTable(name)

\* OpenFile has just refused to open the directory /a for writing; /a/b is
\* absent under an existing parent, /a is present
C9_Witness ==
  /\ last.op = "OpenFile" /\ last.err = "EISDIR"
  /\ ParentExists(St, PathAB) /\ resolve(St, Root, PathAB).err = "ENOENT"
  /\ OpenFile(St, PathAB, O_RDWR, 0).err = "ENOENT"
  /\ OpenFile(St, PathA, O_CREATE + O_EXCL + O_RDWR, 0).err = "EEXIST"

\* the table as the claim states it, for every path whose parent directory
\* exists, "/" and "." among them
C9_EveryPath ==
  Running => \A name \in AskPaths \cup {Slash, Dot} : ParentExists(St, name) => FollowsTable(name)

(***************************************************************************)
(* C10.  Opening an existing target is permitted only if its mode bits     *)
(* allow the access mode: a read-only open needs a read bit, a write-only  *)
(* open a write bit, a read-write open a read bit and a write bit;         *)
(* otherwise OpenFile fails with a permission error.  Taken for regular    *)
(* files opened without O_CREATE.                                          *)
(***************************************************************************)
C10_PermissionCheck ==
  Running =>
    \A name \in AskPaths, a \in AccessModes :
      LET t == resolve(St, Root, name)
          o == OpenFile(St, name, a, 0)
      IN (t.err = "" /\ ~IsDir(St, t.node) /\ InRange(St, t.node)) =>
           IF Allowed(nodes[t.node].Mode.perm, a) THEN o.err = "" ELSE o.err = "EPERM"

(***************************************************************************)
(* Directory handles: Readdir and Readdirnames in chunks.                  *)
(***************************************************************************)
ReaddirPaths == {Slash, PathA}

NextReaddir ==
  \/ DoMkdir({PathA, PathB}, DirPerm, MaxIno)
  \/ DoOpenFile(ReaddirPaths, {O_RDONLY}, {0})
  \/ DoReaddir({-1, 1, 2})
  \/ DoReaddirnames({0, 1})

SpecReaddir == Init /\ [][NextReaddir]_vars

RECURSIVE ReaddirAll(_, _, _, _)
\* Readdir(n) until a call returns an error, at most fuel + 1 times: [S, out, err]
ReaddirAll(S, h, n, fuel) ==
  LET r == Readdir(S, h, n) IN
  IF r.err # "" THEN [S |-> r.S, out |-> <<>>, err |-> r.err]
  ELSE IF fuel = 0 THEN [S |-> r.S, out |-> r.out, err |-> ""]
  ELSE LET rest == ReaddirAll(r.S, h, n, fuel - 1) IN
       [S |-> rest.S, out |-> r.out \o rest.out, err |-> rest.err]

(***************************************************************************)
(* C5.  Chunked readdir completeness: for a directory of k entries and any *)
(* positive n, Readdir(n) (Readdirnames(n) alike) called on one handle     *)
(* until it returns end-of-stream never panics and yields, concatenated,   *)
(* the names a single Readdir(-1) on a fresh handle yields, in its order.  *)
(***************************************************************************)
C5_ChunkedReaddirComplete ==
  Running =>
    \A D \in ReaddirPaths, n \in 1..3 :
      LET o1 == Open(St, D)
          whole == Readdir(o1.S, o1.h, -1)
          o2 == Open(St, D)
          chunks == ReaddirAll(o2.S, o2.h, n, nodes[o2.S.files[o2.h].node].Dir.len + 1)
      IN (o1.err = "" /\ IsDir(St, o1.S.files[o1.h].node)) =>
           /\ ~Panicked(chunks.S) /\ chunks.err = "EOF"
           /\ chunks.out = whole.out

(***************************************************************************)
(* C6.  A single Readdir(n) on a directory handle with r = len - c > 0     *)
(* entries left after its cursor c returns exactly min(n, r) entries when  *)
(* n >= 1 and all r entries when n < 1, and advances the cursor by the     *)
(* number of entries returned, not by n; Readdir(0) behaves as Readdir(-1) *)
(* does.                                                                   *)
(***************************************************************************)
C6_SingleReaddir ==
  Running =>
    \A h \in 1..Len(files), n \in -1..3 :
      LET f == files[h]
          len == nodes[f.node].Dir.len
          c == f.diroffset
          r == len - c
          want == IF n >= 1 /\ n < r THEN n ELSE r
          rd == Readdir(St, h, n)
      IN (f.node # NIL /\ IsDir(St, f.node) /\ Access(f.flags) # O_WRONLY /\ r > 0) =>
           /\ rd.err = "" /\ ~Panicked(rd.S)
           /\ rd.out = SubSeq(NamesOf(St, f.node), c + 1, c + want)
           /\ rd.S.files[h].diroffset = c + want
           /\ Readdir(St, h, 0) = Readdir(St, h, -1)

(***************************************************************************)
(* Symbolic links under Stat.                                              *)
(***************************************************************************)
StatPaths == {PathA, PathB}
SymlinkMode == [dir |-> FALSE, symlink |-> TRUE, perm |-> Oct(6, 4, 4)]

NextStat ==
  \/ DoWriteFile({PathA}, FacadeInputs)
  \/ DoSymlink(StatPaths, StatPaths)
  \/ DoChmod(StatPaths, {SymlinkMode, FileMode(Oct(6, 4, 4))})
  \/ DoStat(StatPaths)
  \/ DoLstat(StatPaths)
  \/ DoReadlink(StatPaths)

SpecStat == Init /\ [][NextStat]_vars

\* the path a symbolic link at the absolute path p sends Stat to, <<>> where p
\* is not a symbolic link
SymNext(S, p) ==
  LET r == resolve(S, Root, TrimLeftSlash(p)) IN
  IF r.err = "" /\ S.nodes[r.node].Mode.symlink
  THEN abs(Dir(p), SymlinkTarget(S, r.node))
  ELSE <<>>

RECURSIVE Cyclic(_, _, _)
\* the chain of symbolic links from p comes back to a path it has passed
Cyclic(S, p, seen) ==
  IF p = <<>> THEN FALSE
  ELSE IF p \in seen THEN TRUE
  ELSE Cyclic(S, SymNext(S, p), seen \cup {p})

(***************************************************************************)
(* C4.  Symlink-loop termination: Stat on a path whose chain of symbolic   *)
(* links forms a cycle (a -> b and b -> a, or a -> a) terminates and       *)
(* returns a too-many-links error after at most 40 dereferences.           *)
(***************************************************************************)
C4_SymlinkLoopTerminates ==
  Running =>
    \A name \in StatPaths :
      Cyclic(St, abs(cwd, name), {}) =>
        LET s == Stat(St, name) IN ~Panicked(s.S) /\ s.err = "too many links"

\* fs.data has one slot for every inode allocated and one before them, as NewFS
\* leaves it
InStep(S) == Len(S.data) = S.ino + 1

(***************************************************************************)
(* C11.  The open-time permission check is bypassed exactly when the       *)
(* OpenFile call itself created the inode.  A file the call creates, with  *)
(* any perm, perm 0 among them, comes back as a handle on which Write and  *)
(* Read succeed; a file that exists already is refused with a permission   *)
(* error where its mode bits do not allow the access mode, O_CREATE set or *)
(* not.  Taken where fs.data is in step with the inode counter, and, for   *)
(* the existing file, for the read-only and write-only access modes.       *)
(***************************************************************************)
C11_BypassOnlyWhenCreated ==
  Running =>
    \A name \in AskPaths :
      LET t == resolve(St, Root, name) IN
      /\ (t.err # "" /\ ParentExists(St, name) /\ InStep(St)) =>
           \A perm \in {0, Oct(4, 4, 4), Oct(6, 4, 4)} :
             LET o == OpenFile(St, name, O_CREATE + O_RDWR, perm)
                 w == Write(o.S, o.h, <<1>>)
                 s == Seek(w.S, o.h, 0, SeekStart)
                 r == Read(s.S, o.h, 1)
             IN o.err = "" /\ w.err = "" /\ w.n = 1 /\ r.err = "" /\ r.out = <<1>>
      /\ (t.err = "" /\ ~IsDir(St, t.node) /\ InRange(St, t.node)) =>
           \A a \in {O_RDONLY, O_WRONLY}, create \in BOOLEAN :
             LET o == OpenFile(St, name, a + (IF create THEN O_CREATE ELSE 0), 0) IN
             IF Allowed(nodes[t.node].Mode.perm, a) THEN o.err = "" ELSE o.err = "EPERM"

\* perm AND (NOT umask) on the nine permission bits
MaskedPerm(perm, mask) == perm - BitAnd(perm, mask)

\* the values fs.Umask is given: the default 0755 of NewFS, and others
UmaskValues == {Oct(7, 5, 5), 0, Oct(0, 2, 2), Oct(7, 7, 7)}

(***************************************************************************)
(* C12.  Every inode created by OpenFile with O_CREATE or by Mkdir gets    *)
(* permission bits equal to perm AND (NOT umask), for every perm and every *)
(* value of Umask, the default 0755 included.  Taken for an absent name    *)
(* under an existing parent directory.                                     *)
(***************************************************************************)
C12_UmaskApplied ==
  Running =>
    \A name \in AskPaths, perm \in {0, Oct(6, 4, 4), Oct(7, 7, 7)}, u \in UmaskValues :
      LET S == [St EXCEPT !.umask = FileMode(u)]
          t == resolve(S, Root, name)
          o == OpenFile(S, name, O_CREATE + O_RDWR, perm)
          m == Mkdir(S, name, perm)
      IN (t.err # "" /\ ParentExists(S, name) /\ InStep(S)) =>
           /\ o.err = "" /\ o.S.ino = S.ino + 1
           /\ o.S.nodes[o.S.ino].Mode = FileMode(MaskedPerm(perm, u))
           /\ m.err = "" /\ m.S.ino = S.ino + 1
           /\ m.S.nodes[m.S.ino].Mode = ModeOrType(FileMode(MaskedPerm(perm, u)), ModeDir)

\* the contents of fs.data, slot by slot
Stored(S) == [i \in 1..Len(S.data) |-> Bytes(S, S.data[i])]

\* a call on handle h that took S0 to r.S failed with a bad descriptor and
\* changed neither the handle's buffer nor fs.data
RefusedBadFd(S0, h, r) ==
  /\ r.err = "EBADF" /\ ~Panicked(r.S)
  /\ Bytes(r.S, r.S.files[h].data) = Bytes(S0, S0.files[h].data)
  /\ Stored(r.S) = Stored(S0)

(***************************************************************************)
(* C13.  After Close has returned on a handle, every later Read, Write,    *)
(* Truncate, Readdir, Readdirnames or Sync on that handle fails with a     *)
(* bad-descriptor error, neither succeeding nor panicking, and changes     *)
(* neither the handle's buffer nor the filesystem's stored data.           *)
(***************************************************************************)
C13_ClosedHandleRefuses ==
  Running =>
    \A h \in 1..Len(files) :
      files[h].node = NIL =>
        /\ RefusedBadFd(St, h, Read(St, h, 1))
        /\ RefusedBadFd(St, h, Write(St, h, <<1>>))
        /\ RefusedBadFd(St, h, Truncate(St, h, 0))
        /\ RefusedBadFd(St, h, Readdir(St, h, -1))
        /\ RefusedBadFd(St, h, Readdirnames(St, h, 1))
        /\ RefusedBadFd(St, h, Sync(St, h))

(***************************************************************************)
(* C14.  Read on a handle opened write-only on a regular file fails with a *)
(* bad-descriptor error whatever the file's length and the handle's        *)
(* offset, an empty file and an offset at or past the end included; Read   *)
(* on a directory handle fails with is-a-directory; and end-of-stream is   *)
(* returned only for a readable handle whose offset is at or past the end. *)
(***************************************************************************)
C14_ReadErrors ==
  Running =>
    /\ \A name \in AskPaths :
         LET t == resolve(St, Root, name)
             ow == OpenFile(St, name, O_WRONLY, 0)
             od == Open(St, name)
         IN /\ (t.err = "" /\ ~IsDir(St, t.node) /\ ow.err = "") =>
                 \A off \in 0..(ow.S.files[ow.h].data.len + 1) :
                   LET r == Read(Seek(ow.S, ow.h, off, SeekStart).S, ow.h, 1) IN
                   r.err = "EBADF" /\ r.out = <<>>
            /\ (t.err = "" /\ IsDir(St, t.node) /\ od.err = "") =>
                 Read(od.S, od.h, 1).err = "EISDIR"
    /\ \A h \in 1..Len(files) :
         (files[h].node # NIL /\ Read(St, h, 1).err = "EOF") =>
           /\ Access(files[h].flags) # O_WRONLY /\ ~IsDir(St, files[h].node)
           /\ files[h].offset >= files[h].data.len

(***************************************************************************)
(* One file under Seek, Write and Truncate, beside a directory.            *)
(***************************************************************************)
SeekFlags == {O_CREATE + O_RDWR}
SeekOffsets == {-1, 1, 2}
SeekInputs == {<<1>>}
SeekWhences == {SeekStart, SeekCurrent, SeekEnd}

NextSeek ==
  \/ DoMkdir({PathB}, DirPerm, MaxIno)
  \/ DoOpenFile({PathA}, SeekFlags, {Oct(6, 4, 4)})
  \/ DoSeek(SeekOffsets, SeekWhences)
  \/ DoWrite(SeekInputs)
  \/ DoTruncate({0})

SpecSeek == Init /\ [][NextSeek]_vars

\* n zero bytes
Zeros(n) == [k \in 1..n |-> 0]

\* the offset Seek is to leave: the base of whence plus offset, not below zero
SeekTarget(f, offset, whence) ==
  LET base == CASE whence = SeekStart -> 0
                [] whence = SeekCurrent -> f.offset
                [] OTHER -> f.data.len
  IN IF base + offset < 0 THEN 0 ELSE base + offset

(***************************************************************************)
(* C15.  Seek clamps a negative resulting offset to 0 and allows offsets   *)
(* past the end; a Write of p at an offset o > len on a writable handle    *)
(* makes the content old_bytes ++ (o - len zero bytes) ++ p, of length     *)
(* o + len(p), leaves the bytes before o unchanged, and advances the       *)
(* offset to o + len(p).                                                   *)
(***************************************************************************)
C15_SeekAndSparseWrite ==
  Running =>
    \A h \in 1..Len(files) :
      LET f == files[h]
          old == Bytes(St, f.data)
      IN f.node # NIL =>
           /\ \A offset \in -(MaxLen + 1)..(MaxLen + 1), whence \in SeekWhences :
                LET s == Seek(St, h, offset, whence) IN
                /\ s.err = "" /\ s.ret = SeekTarget(f, offset, whence)
                /\ s.S.files[h].offset = s.ret
                /\ Bytes(s.S, s.S.files[h].data) = old
           /\ Access(f.flags) # O_RDONLY =>
                \A o \in (f.data.len + 1)..(f.data.len + 2), p \in {<<>>, <<1>>, <<2, 3>>} :
                  LET s == Seek(St, h, o, SeekStart)
                      w == Write(s.S, h, p)
                      new == Bytes(w.S, w.S.files[h].data)
                  IN /\ w.err = "" /\ w.n = Len(p) /\ ~Panicked(w.S)
                     /\ new = old \o Zeros(o - Len(old)) \o p
                     /\ Len(new) = o + Len(p)
                     /\ SubSeq(new, 1, Len(old)) = old
                     /\ w.S.files[h].offset = o + Len(p)

\* a Write has just filled a gap: the handle was moved to offset 1 of an empty
\* buffer, and the byte written sits behind one zero byte
C15_Witness ==
  /\ last.op = "Write" /\ last.err = "" /\ last.out = <<1>>
  /\ Bytes(St, files[last.h].data) = <<0, 1>>
  /\ files[last.h].offset = 2

\* the directory has an entry other than "." and ".."
HasOtherEntries(S, n) ==
  \E k \in 1..S.nodes[n].Dir.len : S.nodes[n].Dir.buf[k].Name \notin {Dot, DotDot}

(***************************************************************************)
(* C16.  Remove(name) on a directory fails with a not-empty error if and   *)
(* only if the directory has at least one entry other than "." and "..";   *)
(* Remove on a directory whose only entries are "." and ".." succeeds,     *)
(* unlinks it from its parent, and a following Stat(name) fails with       *)
(* ENOENT.  Taken for the directories other than the root.                 *)
(***************************************************************************)
C16_RemoveDirectory ==
  Running =>
    \A name \in FacadePaths :
      LET t == resolve(St, Wd(St, name), name)
          r == Remove(St, name)
      IN (t.err = "" /\ IsDir(St, t.node) /\ t.node # Root) =>
           /\ r.err = "directory not empty" <=> HasOtherEntries(St, t.node)
           /\ ~HasOtherEntries(St, t.node) =>
                /\ r.err = "" /\ ~Panicked(r.S)
                /\ resolve(r.S, Wd(St, name), name).err = "ENOENT"
                /\ Stat(r.S, name).err = "ENOENT"

(***************************************************************************)
(* C17.  RemoveAll(name) on a path that does not exist returns success and *)
(* leaves the filesystem unchanged; on an existing path, other than the    *)
(* root, it returns success and afterwards name no longer resolves.        *)
(***************************************************************************)
C17_RemoveAllOutcome ==
  Running =>
    \A name \in FacadePaths :
      LET t == resolve(St, Wd(St, name), name)
          r == RemoveAll(St, name)
      IN /\ t.err # "" => r.err = "" /\ r.S = St
         /\ (t.err = "" /\ t.node # Root) =>
              /\ r.err = "" /\ ~Panicked(r.S)
              /\ resolve(r.S, Wd(St, name), name).err # ""

\* the target strings a symbolic link is given: an absolute and a relative one
\* that may exist, and one that never does
PathC == <<"/", "c">>
LinkTargets == {PathA, PathB, NameA, PathC}

(***************************************************************************)
(* C18.  Symlink(target, linkpath) does not resolve target at creation     *)
(* time: whenever linkpath does not exist and its parent directory exists, *)
(* the call succeeds whether or not target exists, and Readlink(linkpath)  *)
(* then returns the target string verbatim.                                *)
(***************************************************************************)
C18_SymlinkVerbatim ==
  Running =>
    \A target \in LinkTargets, linkpath \in StatPaths :
      LET t == resolve(St, Root, linkpath)
          s == Symlink(St, target, linkpath)
          rl == Readlink(s.S, linkpath)
      IN (t.err # "" /\ ParentExists(St, linkpath)) =>
           /\ s.err = "" /\ ~Panicked(s.S)
           /\ rl.err = "" /\ rl.out = target

\* the inode at path P is a regular file: neither a directory nor a symbolic link
RegularAt(S, P) ==
  LET r == Lstat(S, P) IN r.err = "" /\ ~S.nodes[r.node].Mode.dir /\ ~S.nodes[r.node].Mode.symlink

\* the inode at path L is a symbolic link whose recorded target names path F
LinkTo(S, L, F) ==
  LET r == Lstat(S, L) IN
  /\ r.err = "" /\ S.nodes[r.node].Mode.symlink /\ r.node \in DOMAIN S.symlinks
  /\ SymNext(S, abs(S.cwd, L)) = abs(S.cwd, F)

\* the inode at path F is a file that Symlink did not make: neither a
\* directory nor an inode with a target in fs.symlinks
FileAt(S, F) ==
  LET r == Lstat(S, F) IN RegularAt(S, F) /\ r.node \notin DOMAIN S.symlinks

\* the inode at path L has a target in fs.symlinks, as Symlink records it, and
\* the target names path F from the directory of L
SymlinkTo(S, L, F) ==
  LET r == Lstat(S, L) IN
  /\ r.err = "" /\ r.node \in DOMAIN S.symlinks
  /\ abs(Dir(abs(S.cwd, L)), S.symlinks[r.node]) = abs(S.cwd, F)

TransparencyPaths == StatPaths \cup {NameA, NameB}

\* Stat(L) describes the inode of F and Lstat(L) the inode of the link
StatFollows(S, L, F) ==
  LET sl == Stat(S, L)  sf == Stat(S, F)  ll == Lstat(S, L)  lf == Lstat(S, F)
  IN /\ sl.err = "" /\ sf.err = "" /\ ~Panicked(sl.S)
     /\ sl.node = lf.node /\ sl.node # ll.node
     /\ fileinfo(S, sl.node).Size = fileinfo(S, sf.node).Size
     /\ fileinfo(S, sl.node).Mode = fileinfo(S, sf.node).Mode

\* Lstat(L) carries the symlink bit and Lstat(F) does not
LstatTellsLink(S, L, F) ==
  /\ fileinfo(S, Lstat(S, L).node).Mode.symlink
  /\ ~fileinfo(S, Lstat(S, F).node).Mode.symlink

Transparent(S) ==
  \A F \in TransparencyPaths, L \in TransparencyPaths :
    (FileAt(S, F) /\ SymlinkTo(S, L, F)) =>
      StatFollows(S, L, F) /\ LstatTellsLink(S, L, F)

(***************************************************************************)
(* C19.  Symlink transparency: for any regular file F and any symbolic     *)
(* link L whose target is F, Stat(L) describes F's inode, with the size    *)
(* and mode Stat(F) gives, while Lstat(L) describes the inode of the link, *)
(* whose mode carries the symlink bit, and the mode Lstat(F) gives does    *)
(* not carry it.  A symbolic link is what Symlink makes: an inode with a   *)
(* target in fs.symlinks.  The code does not keep this: Symlink hands      *)
(* oldNode.Mode|os.ModeSymlink to the allocator, which stores the mode     *)
(* without its type bits, so the link has no symlink bit, Lstat(L) shows   *)
(* none and fileStat returns the inode of the link itself.                 *)
(***************************************************************************)
C19_SymlinkTransparency ==
  Running =>
    /\ Transparent(St)
    /\ \A target \in LinkTargets, L \in TransparencyPaths :
         LET s == Symlink(St, target, L) IN s.err = "" => Transparent(s.S)

(***************************************************************************)
(* C20.  Stat size tracks content: after any sequence of writes and        *)
(* truncates committed by Sync or Close, Stat(P).Size() equals the current *)
(* length of P's stored byte buffer; after creating a file, writing k      *)
(* bytes and closing, the size is k.                                       *)
(***************************************************************************)
C20_StatSizeTracksContent ==
  Running =>
    \A P \in AskPaths :
      LET st == Stat(St, P) IN
      /\ (st.err = "" /\ ~IsDir(St, st.node) /\ InRange(St, st.node)) =>
           fileinfo(St, st.node).Size = data[st.node + 1].len
      /\ (st.err # "" /\ ParentExists(St, P) /\ InStep(St)) =>
           \A B \in {<<>>, <<1>>, <<2, 3>>}, commit \in {"Sync", "Close"} :
             LET c == Create(St, P)
                 w == Write(c.S, c.h, B)
                 k == IF commit = "Sync" THEN Sync(w.S, c.h) ELSE Close(w.S, c.h)
                 s == Stat(k.S, P)
             IN /\ c.err = "" /\ w.err = "" /\ k.err = "" /\ s.err = ""
                /\ Stored(k.S)[s.node + 1] = B
                /\ fileinfo(k.S, s.node).Size = Len(B)

(***************************************************************************)
(* C21.  Readlink(name) returns the stored target string when name is a    *)
(* symbolic link, and fails with an invalid-argument error, returning no   *)
(* target, whenever name resolves to an inode that is not a symbolic link: *)
(* a regular file, a directory, or the root.                               *)
(***************************************************************************)
C21_ReadlinkOutcome ==
  Running =>
    \A name \in StatPaths \cup {Slash} :
      LET t == Lstat(St, name)
          rl == Readlink(St, name)
      IN t.err = "" =>
           IF nodes[t.node].Mode.symlink
           THEN rl.err = "" /\ rl.out = SymlinkTarget(St, t.node)
           ELSE rl.err = "EINVAL" /\ rl.out = <<>>

(***************************************************************************)
(* C22.  Cwd consistency: after any sequence of facade operations,         *)
(* resolving the cwd path string from the root yields exactly the inode    *)
(* held as the cwd directory reference; and a failed Chdir changes neither *)
(* the path nor the reference.                                             *)
(***************************************************************************)
C22_CwdConsistency ==
  Running =>
    /\ resolve(St, Root, cwd) = [node |-> dir, err |-> ""]
    /\ \A name \in FacadePaths \cup {PathB, DotDot} :
         LET c == Chdir(St, name) IN
         /\ c.err # "" => c.S.cwd = cwd /\ c.S.dir = dir
         /\ c.err = "" => resolve(c.S, Root, c.S.cwd) = [node |-> c.S.dir, err |-> ""]

(***************************************************************************)
(* Walk over directories of either permission and files.                   *)
(***************************************************************************)
WalkPaths == {PathA, PathAB, PathB}
WalkPerms == {Oct(7, 7, 7), 0}

NextWalk ==
  \/ DoMkdir(WalkPaths, WalkPerms, MaxIno)
  \/ DoWriteFile({PathB}, FacadeInputs)
  \/ DoWalk({Slash, PathA})
  \/ DoFnReturnsNil
  \/ DoFnReturnsError

SpecWalk == Init /\ [][NextWalk]_vars

\* the names of a directory's entries other than "." and "..", ascending in Go's
\* string order
ChildNames(S, n) ==
  SortSeq(SelectSeq(NamesOf(S, n), LAMBDA s : s # Dot /\ s # DotDot), StrLess)

RECURSIVE PreOrder(_, _, _)
RECURSIVE PreOrderAll(_, _, _, _)
\* the paths of the subtree at path in lexicographic pre-order: the path, then
\* the subtree of each child in ascending order of the names
PreOrder(S, path, fuel) ==
  LET r == Lstat(S, path) IN
  IF r.err # "" \/ fuel = 0 THEN <<>>
  ELSE IF ~IsDir(S, r.node) THEN <<path>>
  ELSE <<path>> \o PreOrderAll(S, path, ChildNames(S, r.node), fuel - 1)

PreOrderAll(S, path, names, fuel) ==
  IF names = <<>> THEN <<>>
  ELSE PreOrder(S, Join(path, Head(names)), fuel) \o PreOrderAll(S, path, Tail(names), fuel)

(***************************************************************************)
(* C23.  Walk(name, fn) invokes fn exactly once for every node in the      *)
(* subtree at name, in lexicographic pre-order (a directory before its     *)
(* children, siblings in ascending name order), never reports "." or "..", *)
(* and stops with fn's error as soon as fn returns a non-nil error,        *)
(* without visiting any further node.  Checked at the return of every call *)
(* of Walk whose fn made no call of the file system itself.                *)
(***************************************************************************)
C23_WalkPreOrder ==
  (last.op = "Walk" /\ walk.quiet /\ Lstat(St, walk.name).err = "") =>
    LET want == PreOrder(St, walk.name, ino + 1)
        visited == last.out
    IN /\ Running
       /\ \A k \in 1..Len(visited) : Base(visited[k]) \notin {Dot, DotDot}
       /\ IF walk.fnerr
          THEN /\ last.err = FnError
               /\ Len(visited) <= Len(want)
               /\ visited = SubSeq(want, 1, Len(visited))
          ELSE last.err = "" /\ visited = want

\* the calls made between the unlink and the handle's next use: another file
\* or directory is created or removed
BetweenOps == {"none", "Create", "Mkdir", "Remove"}

\* the state after one of them on the path Q
Between(S, op, Q) ==
  CASE op = "Create" -> Create(S, Q).S
    [] op = "Mkdir" -> Mkdir(S, Q, Oct(7, 5, 5)).S
    [] op = "Remove" -> Remove(S, Q).S
    [] OTHER -> S

\* Write(B), Sync, Seek(0, start) and Read through the handle h succeed, and
\* Read returns B
HandleWorks(S, h, B) ==
  LET w == Write(S, h, B)
      sy == Sync(w.S, h)
      sk == Seek(sy.S, h, 0, SeekStart)
      rd == Read(sk.S, h, Len(B))
  IN /\ ~Panicked(rd.S)
     /\ w.err = "" /\ w.n = Len(B) /\ sy.err = "" /\ sk.err = "" /\ sk.ret = 0
     /\ rd.err = "" /\ rd.out = B

(***************************************************************************)
(* C24.  Open-file survival across unlink: a handle opened for reading and *)
(* writing on a regular file before Remove unlinks that file keeps         *)
(* working.  After the Remove, and after another file or directory is      *)
(* created or removed, Write, Sync, Seek and Read through the handle       *)
(* succeed and Read returns the bytes written through it.                  *)
(***************************************************************************)
C24_HandleSurvivesUnlink ==
  Running =>
    \A P \in AskPaths, B \in {<<1>>, <<2, 3>>}, op \in BetweenOps, Q \in AskPaths :
      LET t == resolve(St, Root, P)
          o == OpenFile(St, P, O_RDWR, 0)
          rm == Remove(o.S, P)
          x == Between(rm.S, op, Q)
      IN (t.err = "" /\ ~IsDir(St, t.node) /\ o.err = "" /\ rm.err = "")
         => /\ resolve(rm.S, Root, P).err # ""
            /\ ~Panicked(x)
            /\ HandleWorks(x, o.h, B)

(***************************************************************************)
(* C25.  A writable handle's buffer is private until Sync or Close: after  *)
(* a Write through a handle opened for reading and writing on a regular    *)
(* file, and before that handle's Sync or Close, the store holds what it   *)
(* held before the Write, and a handle opened afterwards on the same file  *)
(* reads that.  This is so for a write that extends the file and for a     *)
(* write that overwrites bytes within its current length.                  *)
(***************************************************************************)
C25_PrivateUntilSync ==
  Running =>
    \A P \in AskPaths, B \in {<<2>>, <<2, 3>>} :
      LET t == resolve(St, Root, P)
          o == OpenFile(St, P, O_RDWR, 0)
          w == Write(o.S, o.h, B)
          o2 == Open(w.S, P)
          ra == ReadAll(o2.S, o2.h, 1, MaxLen + 1)
      IN (t.err = "" /\ ~IsDir(St, t.node) /\ o.err = "" /\ o2.err = "")
         => /\ w.err = ""
            /\ Stored(w.S)[t.node + 1] = Stored(St)[t.node + 1]
            /\ ra.out = Stored(St)[t.node + 1]

(***************************************************************************)
(* The current directory under OpenFile: directories are made and entered, *)
(* "/" and "." are opened, and symbolic links are made beside them.        *)
(***************************************************************************)
CwdPaths == {PathA, PathB, PathAB}

NextCwd ==
  \/ DoMkdir(CwdPaths, DirPerm, MaxIno)
  \/ DoSymlink({Slash, PathA}, CwdPaths)
  \/ DoChdir({Slash, PathA, PathB})
  \/ DoOpenFile({Slash, Dot}, {O_RDONLY}, {0})
  \/ DoClose

SpecCwd == Init /\ [][NextCwd]_vars

(***************************************************************************)
(* C26.  In every reachable state OpenFile("/") and OpenFile(".") succeed  *)
(* without error or panic, whatever the flag, and return a handle bound to *)
(* the root inode and to the inode of the current directory, fs.dir.       *)
(***************************************************************************)
C26_OpenRootAndDot ==
  Running =>
    \A flag \in {O_RDONLY, O_RDWR} :
      LET r == OpenFile(St, Slash, flag, 0)
          d == OpenFile(St, Dot, flag, 0)
      IN /\ ~Panicked(r.S) /\ r.err = "" /\ r.S.files[r.h].node = Root
         /\ ~Panicked(d.S) /\ d.err = "" /\ d.S.files[d.h].node = dir

\* in state S, opening the path L works on the regular file at path F: reading
\* the handle to the end yields F's content, and a write of B, which is no
\* shorter than that content, followed by Close makes B the content of F
OpensThrough(S, L, F, B) ==
  LET f == Lstat(S, F).node
      o == Open(S, L)
      ra == ReadAll(o.S, o.h, 1, MaxLen + 1)
      ow == OpenFile(S, L, O_RDWR, 0)
      w == Write(ow.S, ow.h, B)
      cl == Close(w.S, ow.h)
  IN /\ ~Panicked(o.S) /\ o.err = ""
     /\ ra.out = Stored(S)[f + 1] /\ ra.err = "EOF"
     /\ ~Panicked(ow.S) /\ ow.err = "" /\ w.err = "" /\ cl.err = ""
     /\ Stored(cl.S)[f + 1] = B

(***************************************************************************)
(* C27.  Opening a path that names a symbolic link to a regular file F     *)
(* follows the link: reading the handle to end-of-stream yields F's        *)
(* content, and writes through it followed by Close change F's content.    *)
(* The link is one that Symlink(F, L) has just made, or one whose inode    *)
(* carries the symlink bit and has F recorded as its target.               *)
(***************************************************************************)
C27_OpenFollowsSymlink ==
  Running =>
    \A F \in StatPaths, L \in StatPaths :
      LET s == Symlink(St, F, L)
          f == Lstat(St, F)
      IN (RegularAt(St, F) /\ InRange(St, f.node) /\ Open(St, F).err = "" /\ F # L) =>
           /\ LinkTo(St, L, F) => OpensThrough(St, L, F, <<2, 3>>)
           /\ (Lstat(St, L).err # "" /\ s.err = "") => OpensThrough(s.S, L, F, <<2, 3>>)

(***************************************************************************)
(* C28.  Mkdir(name) whose parent path resolves to an inode that is not a  *)
(* directory fails with a not-a-directory error and creates nothing; and   *)
(* Mkdir returns success only if name afterwards resolves to a new         *)
(* directory inode that is linked under its base name in the parent and    *)
(* whose ".." entry is that parent.                                        *)
(***************************************************************************)
C28_MkdirParentChecked ==
  Running =>
    \A name \in FacadePaths \cup {PathB}, perm \in DirPerm :
      LET ap == abs(cwd, name)
          pr == resolve(St, Root, Dir(ap))
          m == Mkdir(St, name, perm)
          r == resolve(m.S, Root, ap)
      IN /\ ~Panicked(m.S)
         /\ (pr.err = "" /\ ~IsDir(St, pr.node)) =>
              m.err = "not a directory" /\ m.S = St
         /\ m.err = "" =>
              /\ r.err = "" /\ r.node = ino + 1 /\ m.S.ino = ino + 1
              /\ IsDir(m.S, r.node)
              /\ pr.err = "" /\ IsDir(m.S, pr.node)
              /\ resolve(m.S, pr.node, Base(ap)) = [node |-> r.node, err |-> ""]
              /\ resolve(m.S, r.node, DotDot) = [node |-> pr.node, err |-> ""]

\* in state S, Stat and Lstat of L/x reach the inode that D/x names
SamePlace(S, L, D, x) ==
  LET want == resolve(S, Root, TrimLeftSlash(Join(D, x)))
      s == Stat(S, Join(L, x))
      l == Lstat(S, Join(L, x))
  IN /\ ~Panicked(s.S) /\ s.err = "" /\ s.node = want.node
     /\ ~Panicked(l.S) /\ l.err = "" /\ l.node = want.node

(***************************************************************************)
(* C29.  Path resolution dereferences a symbolic link that occurs as an    *)
(* interior path component: if L is a symbolic link whose target is the    *)
(* directory D and D contains the entry x, then Stat and Lstat of L/x both *)
(* reach the inode of D/x.  L is the link Symlink(D, L) makes, as Symlink  *)
(* leaves it and after Chmod has given its inode the symlink bit.          *)
(***************************************************************************)
C29_InteriorSymlink ==
  Running =>
    \A D \in CwdPaths, L \in CwdPaths, x \in {NameA, NameB} :
      LET d == resolve(St, Root, TrimLeftSlash(D))
          dx == resolve(St, Root, TrimLeftSlash(Join(D, x)))
          s == Symlink(St, D, L)
          c == Chmod(s.S, L, SymlinkMode)
      IN (d.err = "" /\ IsDir(St, d.node) /\ dx.err = "" /\ s.err = "" /\ D # L) =>
           /\ SamePlace(s.S, L, D, x)
           /\ c.err = "" /\ SamePlace(c.S, L, D, x)

(***************************************************************************)
(* C30.  Symlink-table invariant (I7): in every reachable state an inode   *)
(* has an entry in the symlink target table, fs.symlinks, if and only if   *)
(* its mode carries the symlink bit.                                       *)
(***************************************************************************)
C30_SymlinkTable ==
  Running =>
    \A i \in 1..ino : (i \in DOMAIN symlinks) <=> nodes[i].Mode.symlink

(***************************************************************************)
(* Directories placed in a tree, and entries linked beside them.           *)
(***************************************************************************)
NextDots ==
  \/ DoMkdir({PathA, PathB, PathAB}, DirPerm, MaxLinkIno)
  \/ DoLink({NameB})

SpecDots == Init /\ [][NextDots]_vars

\* a directory made as TestResolve and Mkdir make one: newDir, then
\* parent.Link(name, dir) and dir.Link("..", parent).  Returns [S, dir]
PlaceDir(S, parent, name) ==
  LET up(S2, d) == [S |-> Link(S2, d, DotDot, parent).S, dir |-> d]
      down(nd) == up(Link(nd[1], parent, name, nd[2]).S, nd[2])
  IN down(newDir(S, FileMode(Oct(7, 7, 7))))

\* the entries of directory n that are named ".."
DotDotEntries(S, n) ==
  {k \in 1..S.nodes[n].Dir.len : S.nodes[n].Dir.buf[k].Name = DotDot}

\* directory d resolves "." to itself and ".." to parent, through its one ".."
\* entry, and a path that starts with ".." goes on from parent
DotsResolve(S, d, parent) ==
  /\ resolve(S, d, Dot) = [node |-> d, err |-> ""]
  /\ resolve(S, d, DotDot) = [node |-> parent, err |-> ""]
  /\ Cardinality(DotDotEntries(S, d)) = 1
  /\ \A rest \in {Dot, DotDot, NameA, NameB} :
       resolve(S, d, DotDot \o Slash \o rest) = resolve(S, parent, rest)

(***************************************************************************)
(* C31.  For every directory created by newDir and placed under a parent   *)
(* directory with Link(name, child) and Link("..", parent), resolving "."  *)
(* from it yields the directory itself and resolving ".." yields its       *)
(* parent, and it contains exactly one ".." entry; for the root both "."   *)
(* and ".." resolve to the root; so paths such as "../.." and "../sibling" *)
(* resolve as in a real directory tree.                                    *)
(***************************************************************************)
C31_DotAndDotDot ==
  Running =>
    /\ DotsResolve(St, Root, Root)
    /\ \A parent \in 1..ino, name \in {NameA, NameB} :
         LET p == PlaceDir(St, parent, name) IN
         IsDir(St, parent) =>
           /\ ~Panicked(p.S) /\ p.dir = ino + 1
           /\ resolve(p.S, parent, name) = [node |-> p.dir, err |-> ""]
           /\ DotsResolve(p.S, p.dir, parent)
           /\ resolve(p.S, parent, name \o Slash \o DotDot) = [node |-> parent, err |-> ""]

\* Mkdir has just placed the directory /a/b under /a, and "../.." leads from
\* it to the root
C31_Witness ==
  /\ last.op = "Mkdir" /\ last.err = ""
  /\ LET ab == resolve(St, Root, TrimLeftSlash(PathAB))
         a == resolve(St, Root, TrimLeftSlash(PathA))
     IN /\ ab.err = "" /\ a.err = "" /\ ab.node = ino /\ a.node # ab.node
        /\ DotsResolve(St, ab.node, a.node)
        /\ resolve(St, ab.node, DotDot \o Slash \o DotDot).node = Root

(***************************************************************************)
(* C32.  In every reachable state, every inode ordinal that a directory    *)
(* entry refers to is a valid index into fs.data, so that OpenFile never   *)
(* indexes out of range: opening any path read-only does not panic.  This  *)
(* holds after any sequence of OpenFile with O_CREATE, Mkdir and Symlink   *)
(* calls, failed calls among them.                                         *)
(***************************************************************************)
C32_OrdinalsInRange ==
  Running =>
    /\ \A n \in 1..ino : \A i \in Children(St, n) : InRange(St, i)
    /\ \A name \in CwdPaths \cup {Slash, Dot} : ~Panicked(Open(St, name).S)

\* the flags C33 asks OpenFile about
ErrorFlags == {O_RDONLY, O_WRONLY, O_RDWR, O_WRONLY + O_TRUNC, O_RDWR + O_TRUNC,
               O_CREATE + O_RDWR, O_CREATE + O_EXCL + O_RDWR}

\* OpenFile(name, flag) in state S refuses an existing file for its mode bits
DeniedTrunc(S, name, flag) ==
  LET t == resolve(S, Wd(S, name), name)
      o == OpenFile(S, name, flag, 0)
  IN /\ t.err = "" /\ ~IsDir(S, t.node) /\ InRange(S, t.node)
     /\ HasFlag(flag, O_TRUNC) /\ ~HasFlag(flag, O_CREATE)
     /\ ~Allowed(S.nodes[t.node].Mode.perm, Access(flag))
     /\ o.err = "EPERM"

(***************************************************************************)
(* C33.  An OpenFile call that returns an error leaves the filesystem      *)
(* unchanged.  In particular OpenFile with O_TRUNC and without O_CREATE on *)
(* an existing file whose mode bits deny the requested access returns a    *)
(* permission error without truncating the file's stored content.          *)
(***************************************************************************)
C33_FailedOpenChangesNothing ==
  Running =>
    \A name \in AskPaths, flag \in ErrorFlags :
      LET o == OpenFile(St, name, flag, Oct(6, 4, 4))
          t == resolve(St, Wd(St, name), name)
      IN /\ (o.err # "" /\ ~Panicked(o.S)) => o.S = St
         /\ DeniedTrunc(St, name, flag) =>
              Stored(OpenFile(St, name, flag, 0).S)[t.node + 1] = Stored(St)[t.node + 1]

\* what happens between the idle handle's open and its close: nothing, another
\* handle writes B and closes, or the file is opened with O_TRUNC
Meanwhile(S, kind, P, B) ==
  LET o == OpenFile(S, P, IF kind = "trunc" THEN O_RDWR + O_TRUNC ELSE O_RDWR, 0)
      w == Write(o.S, o.h, B)
  IN CASE kind = "write" -> Close(w.S, o.h).S
       [] kind = "trunc" -> Close(o.S, o.h).S
       [] OTHER -> S

(***************************************************************************)
(* C34.  Closing or syncing a writable handle through which no Write or    *)
(* Truncate was performed leaves the file's stored content unchanged, even *)
(* when another handle wrote and closed, or an O_TRUNC open occurred,      *)
(* between this handle's open and its close.                               *)
(***************************************************************************)
C34_IdleHandleCommitsNothing ==
  Running =>
    \A P \in AskPaths, kind \in {"none", "write", "trunc"}, B \in {<<2>>, <<2, 3>>},
       commit \in {"Sync", "Close"} :
      LET t == resolve(St, Root, P)
          o == OpenFile(St, P, O_RDWR, 0)
          m == Meanwhile(o.S, kind, P, B)
          k == IF commit = "Sync" THEN Sync(m, o.h) ELSE Close(m, o.h)
      IN (t.err = "" /\ ~IsDir(St, t.node) /\ o.err = "" /\ ~Panicked(m)) =>
           /\ k.err = "" /\ ~Panicked(k.S)
           /\ Stored(k.S)[t.node + 1] = Stored(m)[t.node + 1]

\* the type bits of inode n in state S
TypeBits(S, n) == [dir |-> S.nodes[n].Mode.dir, symlink |-> S.nodes[n].Mode.symlink]

(***************************************************************************)
(* C35.  Chmod changes only the permission bits: after Chmod(name, mode)   *)
(* with a mode that carries permission bits only, the inode's type bits    *)
(* (directory, symlink) are the same as before, so a directory is still a  *)
(* directory, which "." resolves from and Chdir enters, and a symbolic     *)
(* link, an inode whose mode carries the symlink bit, is still one.        *)
(***************************************************************************)
C35_ChmodKeepsType ==
  Running =>
    \A name \in CwdPaths \cup {Slash}, perm \in {Oct(7, 0, 0), Oct(6, 4, 4)} :
      LET r == Lstat(St, name)
          c == Chmod(St, name, FileMode(perm))
          s == Chmod(St, name, SymlinkMode)
          cs == Chmod(s.S, name, FileMode(perm))
      IN r.err = "" =>
           /\ c.err = "" /\ c.S.nodes[r.node].Mode.perm = perm
           /\ TypeBits(c.S, r.node) = TypeBits(St, r.node)
           /\ IsDir(St, r.node) =>
                /\ resolve(c.S, r.node, Dot) = resolve(St, r.node, Dot)
                /\ Chdir(c.S, name).err = ""
           /\ cs.err = "" /\ TypeBits(cs.S, r.node) = TypeBits(s.S, r.node)

(***************************************************************************)
(* Link counts under every operation that moves them: entries linked and   *)
(* unlinked on the inodes, directories made and removed through the        *)
(* facade.                                                                 *)
(***************************************************************************)
NextCount ==
  \/ DoMkdir({PathA, PathAB}, DirPerm, MaxLinkIno)
  \/ DoLink({NameB})
  \/ DoUnlink({NameB})
  \/ DoUnlinkAll({2})
  \/ DoRemove({PathAB})
  \/ DoRemoveAll({PathAB})

SpecCount == Init /\ [][NextCount]_vars

(***************************************************************************)
(* C36.  No sequence of Link, Unlink, UnlinkAll, Mkdir, Remove and         *)
(* RemoveAll operations reaches countDown with Nlink = 0: the link-count   *)
(* underflow panic is unreachable.                                         *)
(***************************************************************************)
C36_NoUnderflow == panic # "negative link count"

(***************************************************************************)
(* Reads and writes at a given offset, and FileSystem.Truncate, on a file  *)
(* and a directory.                                                        *)
(***************************************************************************)
AtPaths == {PathA, PathB}
AtFlags == {O_RDONLY, O_WRONLY, O_CREATE + O_RDWR}
AtOffsets == {-1, 0, 1}
AtSizes == {-1, 0, 1, 2}

NextAt ==
  \/ DoMkdir({PathB}, DirPerm, MaxIno)
  \/ DoOpenFile(AtPaths, AtFlags, {Oct(6, 4, 4)})
  \/ DoWriteAt(IOInputs, AtOffsets)
  \/ DoReadAt({1}, AtOffsets)
  \/ DoFileSystemTruncate(AtPaths, AtSizes)
  \/ DoSync
  \/ DoClose

SpecAt == Init /\ [][NextAt]_vars

(***************************************************************************)
(* The whole program: every operation, on the inputs above.                *)
(***************************************************************************)
Next ==
  \/ NextAt
  \/ NextLink
  \/ NextFacade
  \/ NextIO
  \/ NextReaddir
  \/ NextStat
  \/ NextSeek
  \/ NextWalk
  \/ NextCwd
  \/ NextDots
  \/ NextCount
  \/ DoSync
  \/ DoRename(FacadePaths)
  \/ DoUnlinkAll(1..MaxLinkIno)

Spec == Init /\ [][Next]_vars
=============================================================================
